---- MODULE Spec2Model ----
(***************************************************************************)
(* Atomic model generation of nanodesign                                   *)
(* (nanodesign/converters/pdbcif: atomic_structure.py, atomic_types.py,    *)
(* utils.py).                                                              *)
(*                                                                         *)
(* Numbers are exact.  A length is a rational <<num, den>> in lowest terms,*)
(* an angle is a rational number of degrees, a matrix is the 9-tuple of    *)
(* its entries in row-major order.  The helix-axis frames of the inputs    *)
(* are rotations with integer entries; _vrrotmat2vec is computed on them   *)
(* by the branches of the code.  A rotation the code builds from an axis   *)
(* and an angle that has no integer entries is kept as the product         *)
(* Rot(axis, angle) . base, which is how the code computes it.             *)
(***************************************************************************)
EXTENDS Integers, Sequences, FiniteSets, TLC

\* ------------------------------------------------------------------ bounds
\* Longest tour of a strand handed to the Bulge Interpolator on its own.
MaxNt == 4
\* Most bases, over all strands, handed to the Atom Assembler on its own.
MaxAsmBases == 4
\* Most bases of a DNA structure handed to a whole generation run.
MaxBases == 4
\* Most generation runs made on one DNA structure.
MaxRuns == 2
\* Most atoms added to a Molecule on its own.
MaxAdded == 3

\* ------------------------------------------------------------------ numbers
Abs(x) == IF x < 0 THEN -x ELSE x

RECURSIVE Gcd(_, _)
Gcd(a, b) == IF b = 0 THEN Abs(a) ELSE Gcd(b, a % b)

\* The rational n/d (d # 0) in lowest terms with a positive denominator.
Rat(n, d) ==
    LET g == Gcd(Abs(n), Abs(d))
        s == IF d < 0 THEN -1 ELSE 1
    IN  <<(s * n) \div g, (s * d) \div g>>

RatAdd(a, b) == Rat(a[1] * b[2] + b[1] * a[2], a[2] * b[2])
RatScale(a, k) == Rat(a[1] * k, a[2])
RatDiv(a, k) == Rat(a[1], a[2] * k)

\* 3-vectors of rationals.
VecAdd(u, v) == [c \in 1..3 |-> RatAdd(u[c], v[c])]
VecScale(u, k) == [c \in 1..3 |-> RatScale(u[c], k)]
VecDiv(u, k) == [c \in 1..3 |-> RatDiv(u[c], k)]
IntVec(v) == [c \in 1..3 |-> Rat(v[c], 1)]

\* ------------------------------------------------------------------ matrices
\* Entry (r, c), 0-based as in the code, of a row-major 9-tuple.
E(M, r, c) == M[3 * r + c + 1]
Mat(f(_, _)) == [k \in 1..9 |-> f((k - 1) \div 3, (k - 1) % 3)]

Identity == <<1, 0, 0,  0, 1, 0,  0, 0, 1>>

MatMul(A, B) ==
    LET f(r, c) == E(A, r, 0) * E(B, 0, c) + E(A, r, 1) * E(B, 1, c)
                   + E(A, r, 2) * E(B, 2, c)
    IN  Mat(f)

Transpose(A) ==
    LET f(r, c) == E(A, c, r)
    IN  Mat(f)

\* Matrix times integer 3-vector.
MatVec(A, v) ==
    [r \in 1..3 |-> E(A, r - 1, 0) * v[1] + E(A, r - 1, 1) * v[2]
                    + E(A, r - 1, 2) * v[3]]

\* ------------------------------------------------------------------ rotations
(* A rotation value of the program: a NumPy array that is either empty      *)
(* (size 0, the "unset" sentinel np.empty(shape=(0, 0))) or the 3x3 matrix  *)
(* Rot(axis, num/den degrees) . base, where base has integer entries.  A    *)
(* matrix with integer entries is held with num = 0 (Rot is the identity).  *)
EmptyMat == [size |-> 0, axis |-> <<0, 0, 0>>, num |-> 0, den |-> 1, base |-> <<>>]
Exact(M) == [size |-> 9, axis |-> <<1, 0, 0>>, num |-> 0, den |-> 1, base |-> M]
IsExact(R) == R.size = 9 /\ R.num = 0

\* The unset translation, np.empty(shape=(0)).
EmptyVec == <<>>

Sign(x) == IF x < 0 THEN -1 ELSE IF x > 0 THEN 1 ELSE 0

\* axis / np.linalg.norm(axis): the direction of an integer axis.
Dir(a) ==
    LET g == Gcd(Gcd(Abs(a[1]), Abs(a[2])), Abs(a[3]))
    IN  IF g = 0 THEN a ELSE <<a[1] \div g, a[2] \div g, a[3] \div g>>

IsCoordinateAxis(a) == Cardinality({c \in 1..3 : a[c] # 0}) = 1

\* cos and sin of q quarter turns.
Cos4(q) == CASE q % 4 = 0 -> 1 [] q % 4 = 1 -> 0 [] q % 4 = 2 -> -1 [] OTHER -> 0
Sin4(q) == CASE q % 4 = 0 -> 0 [] q % 4 = 1 -> 1 [] q % 4 = 2 -> 0 [] OTHER -> -1

\* The Rodrigues matrix of utils._vrrotvec2mat for a unit axis (x, y, z) and
\* an angle with cosine c and sine s.
Rodrigues(x, y, z, c, s) ==
    LET t == 1 - c
    IN  <<t*x*x + c,   t*x*y - s*z, t*x*z + s*y,
          t*x*y + s*z, t*y*y + c,   t*y*z - s*x,
          t*x*z - s*y, t*y*z + s*x, t*z*z + c>>

\* utils._vrrotvec2mat(axis, theta), theta = num/den degrees.
vrrotvec2mat(axis, num, den) ==
    LET a == Dir(axis)
    IN  IF num = 0
        THEN Exact(Rodrigues(a[1], a[2], a[3], 1, 0))
        ELSE IF den = 1 /\ num % 90 = 0 /\ IsCoordinateAxis(a)
        THEN Exact(Rodrigues(a[1], a[2], a[3], Cos4(num \div 90), Sin4(num \div 90)))
        ELSE [size |-> 9, axis |-> a, num |-> num, den |-> den, base |-> Identity]

\* utils._Rx(deg) and utils._Ry(deg) for a whole number of quarter turns.
Rx(deg) ==
    LET c == Cos4(deg \div 90)
        s == Sin4(deg \div 90)
    IN  Exact(<<1, 0, 0,  0, c, -s,  0, s, c>>)

Ry(deg) ==
    LET c == Cos4(deg \div 90)
        s == Sin4(deg \div 90)
    IN  Exact(<<c, 0, s,  0, 1, 0,  -s, 0, c>>)

\* np.dot(A, B) of two rotation values raises ValueError when exactly one of
\* them is empty (shapes (0,0) and (3,3) are not aligned).
DotRaises(A, B) == (A.size = 0) # (B.size = 0)

\* np.dot(A, B) of two rotation values.
Dot(A, B) ==
    CASE A.size = 0 /\ B.size = 0 -> EmptyMat
      [] IsExact(A) /\ IsExact(B) -> Exact(MatMul(A.base, B.base))
      [] A.size = 9 /\ A.num # 0 /\ IsExact(B) ->
            [A EXCEPT !.base = MatMul(A.base, B.base)]
      [] IsExact(A) /\ B.size = 9 /\ B.num # 0 ->
            [B EXCEPT !.axis = Dir(MatVec(A.base, B.axis)),
                      !.base = MatMul(A.base, B.base)]

\* R.T
TransposeOf(R) == IF R.size = 0 THEN R ELSE Exact(Transpose(R.base))

\* utils._vrrotmat2vec(R) for a matrix with integer entries: the axis (its
\* direction; _vrrotvec2mat normalises it) and the angle in degrees.
\* err is "IndexError" for an empty array (R[0, 0]) and "ValueError" when the
\* argument of acos is outside [-1, 1].
vrrotmat2vec(R) ==
    IF R.size = 0
    THEN [err |-> "IndexError", axis |-> <<0, 0, 0>>, angle |-> 0]
    ELSE
    LET M == R.base
        r00 == E(M, 0, 0)  r01 == E(M, 0, 1)  r02 == E(M, 0, 2)
        r10 == E(M, 1, 0)  r11 == E(M, 1, 1)  r12 == E(M, 1, 2)
        r20 == E(M, 2, 0)  r21 == E(M, 2, 1)  r22 == E(M, 2, 2)
        \* twice the argument of acos
        cos2 == r00 + r11 + r22 - 1
        angle == CASE cos2 = 2 -> 0 [] cos2 = 1 -> 60 [] cos2 = 0 -> 90
                   [] cos2 = -1 -> 120 [] cos2 = -2 -> 180 [] OTHER -> -1
        \* angle near pi: 4 * (xx, yy, zz, xy, xz, yz)
        xx4 == 2 * (r00 + 1)  yy4 == 2 * (r11 + 1)  zz4 == 2 * (r22 + 1)
        xy4 == r01 + r10      xz4 == r02 + r20      yz4 == r12 + r21
        \* xx < epsilon, epsilon = 0.01
        Small(v4) == 100 * v4 < 4
        axis == IF angle = 0 THEN <<1, 0, 0>>
                ELSE IF angle = 180
                THEN IF xx4 > yy4 /\ xx4 > zz4
                     THEN IF Small(xx4) THEN <<0, 1, 1>> ELSE <<xx4, xy4, xz4>>
                     ELSE IF yy4 > zz4
                     THEN IF Small(yy4) THEN <<1, 0, 1>> ELSE <<xy4, yy4, yz4>>
                     ELSE IF Small(zz4) THEN <<1, 1, 0>> ELSE <<xz4, yz4, zz4>>
                ELSE <<r21 - r12, r02 - r20, r10 - r01>>
    IN  IF cos2 > 2 \/ cos2 < -2
        THEN [err |-> "ValueError", axis |-> <<0, 0, 0>>, angle |-> 0]
        ELSE [err |-> "none", axis |-> Dir(axis), angle |-> angle]

\* ------------------------------------------------------------------ bulge interpolator
\* Element at the 0-based position p of a Python list, and the list with that
\* element replaced.
At(s, p) == s[p + 1]
Put(s, p, v) == [s EXCEPT ![p + 1] = v]

\* is_visited.index(False)
IndexOfFalse(is_visited) ==
    CHOOSE i \in 0..(Len(is_visited) - 1) :
        /\ ~At(is_visited, i)
        /\ \A k \in 0..(i - 1) : At(is_visited, k)

\* The scan in the 5' direction of _find_single_strands, from position i.
RECURSIVE Scan5(_, _, _, _)
Scan5(is_visited, run, i, is_circular) ==
    IF At(is_visited, i)
    THEN [is_visited |-> is_visited, run |-> run]
    ELSE LET v == Put(is_visited, i, TRUE)
             r == Append(run, i)
         IN  IF i > 0 THEN Scan5(v, r, i - 1, is_circular)
             ELSE IF is_circular THEN Scan5(v, r, Len(is_visited) - 1, is_circular)
             ELSE [is_visited |-> v, run |-> r]

\* The scan in the 3' direction of _find_single_strands, from position i.
RECURSIVE Scan3(_, _, _, _)
Scan3(is_visited, run, i, is_circular) ==
    IF At(is_visited, i)
    THEN [is_visited |-> is_visited, run |-> run]
    ELSE LET v == Put(is_visited, i, TRUE)
             r == Append(run, i)
         IN  IF i < Len(is_visited) - 1 THEN Scan3(v, r, i + 1, is_circular)
             ELSE IF is_circular THEN Scan3(v, r, 0, is_circular)
             ELSE [is_visited |-> v, run |-> r]

\* The while (True) loop of _find_single_strands.  The list built by the 5'
\* scan is dropped (single_strands[-1] = []) and only is_visited[i_0] is
\* cleared again; the positions the 5' scan passed stay visited.
RECURSIVE FindLoop(_, _, _)
FindLoop(is_visited, single_strands, is_circular) ==
    IF \A i \in 0..(Len(is_visited) - 1) : At(is_visited, i)
    THEN single_strands
    ELSE LET i_0 == IndexOfFalse(is_visited)
             s5 == Scan5(is_visited, <<>>, i_0, is_circular)
             v1 == Put(s5.is_visited, i_0, FALSE)
             s3 == Scan3(v1, <<>>, i_0, is_circular)
         IN  FindLoop(s3.is_visited, Append(single_strands, s3.run), is_circular)

\* AtomicStructure._find_single_strands(rotations, is_circular): the list of
\* runs, each a list of 0-based positions.
FindSingleStrands(rotations, is_circular) ==
    FindLoop([i \in 1..Len(rotations) |-> rotations[i].size # 0], <<>>, is_circular)

\* FitStep with the weights of d_1 and d_2 exchanged.
FitStepWeightsSwapped(R_1, d_1, d_2, axis, theta, num_bases, i) ==
    LET j == i + 1
        angle == Rat(theta * j, num_bases + 1)
        R == vrrotvec2mat(axis, angle[1], angle[2])
    IN  [R |-> Dot(R, R_1),
         d |-> VecDiv(VecAdd(VecScale(d_1, j), VecScale(d_2, num_bases + 1 - j)),
                      num_bases + 1)]

\* FitStep with j = i instead of j = i + 1.
FitStepFromZero(R_1, d_1, d_2, axis, theta, num_bases, i) ==
    LET j == i
        angle == Rat(theta * j, num_bases + 1)
        R == vrrotvec2mat(axis, angle[1], angle[2])
    IN  [R |-> Dot(R, R_1),
         d |-> VecDiv(VecAdd(VecScale(d_1, num_bases + 1 - j), VecScale(d_2, j)),
                      num_bases + 1)]

\* One pass of the interpolation loop of _fit_R_d, i 0-based.
FitStep(R_1, d_1, d_2, axis, theta, num_bases, i) ==
    LET j == i + 1
        angle == Rat(theta * j, num_bases + 1)
        R == vrrotvec2mat(axis, angle[1], angle[2])
    IN  [R |-> Dot(R, R_1),
         d |-> VecDiv(VecAdd(VecScale(d_1, num_bases + 1 - j), VecScale(d_2, j)),
                      num_bases + 1)]

\* AtomicStructure._fit_R_d(R_1, d_1, R_2, d_2, num_bases): the lists R_fit
\* and d_fit, or the exception it raises.
FitRd(R_1, d_1, R_2, d_2, num_bases) ==
    LET none == [err |-> "none", R_fit |-> <<>>, d_fit |-> <<>>]
    IN  IF DotRaises(R_2, TransposeOf(R_1))
        THEN [none EXCEPT !.err = "ValueError"]
        ELSE
        LET R == Dot(R_2, TransposeOf(R_1))
            aa1 == vrrotmat2vec(R_1)
            aa2 == vrrotmat2vec(R_2)
            aa == vrrotmat2vec(R)
        IN  IF aa1.err # "none" THEN [none EXCEPT !.err = aa1.err]
            ELSE IF aa2.err # "none" THEN [none EXCEPT !.err = aa2.err]
            ELSE IF aa.err # "none" THEN [none EXCEPT !.err = aa.err]
            ELSE [err |-> "none",
                  R_fit |-> [k \in 1..num_bases |->
                      FitStep(R_1, d_1, d_2, aa.axis, aa.angle, num_bases, k - 1).R],
                  d_fit |-> [k \in 1..num_bases |->
                      FitStep(R_1, d_1, d_2, aa.axis, aa.angle, num_bases, k - 1).d]]

\* The anchor rotation _generate_bulge_dof uses for position i: the stored
\* rotation, times a half turn about z when the base is not the main one.
AnchorRaises(rotations, is_main, i) ==
    ~At(is_main, i) /\ DotRaises(At(rotations, i), vrrotvec2mat(<<0, 0, 1>>, 180, 1))

\* AnchorRotation with the half turn multiplied from the left.
AnchorRotationFromLeft(rotations, is_main, i) ==
    IF ~At(is_main, i)
    THEN Dot(vrrotvec2mat(<<0, 0, 1>>, 180, 1), At(rotations, i))
    ELSE At(rotations, i)

AnchorRotation(rotations, is_main, i) ==
    IF ~At(is_main, i)
    THEN Dot(At(rotations, i), vrrotvec2mat(<<0, 0, 1>>, 180, 1))
    ELSE At(rotations, i)

\* Index of the base before the first and after the last position of a run.
IndexBefore(strand_pos, num_nt) ==
    IF strand_pos[1] - 1 < 0 THEN num_nt - 1 ELSE strand_pos[1] - 1

IndexAfter(strand_pos, num_nt) ==
    IF strand_pos[Len(strand_pos)] + 1 > num_nt - 1 THEN 0
    ELSE strand_pos[Len(strand_pos)] + 1

\* WriteRun with a loop that stops one position early.
RECURSIVE WriteRunStopsEarly(_, _, _, _)
WriteRunStopsEarly(a, strand_pos, fit, j) ==
    IF j >= Len(strand_pos) - 1 THEN a
    ELSE LET k == At(strand_pos, j)
         IN  WriteRunStopsEarly([a EXCEPT !.is_main = Put(@, k, TRUE),
                                          !.rotations = Put(@, k, At(fit.R_fit, j)),
                                          !.translations = Put(@, k, At(fit.d_fit, j))],
                                strand_pos, fit, j + 1)

\* WriteRun without the assignment to is_main.
RECURSIVE WriteRunKeepsIsMain(_, _, _, _)
WriteRunKeepsIsMain(a, strand_pos, fit, j) ==
    IF j >= Len(strand_pos) THEN a
    ELSE LET k == At(strand_pos, j)
         IN  WriteRunKeepsIsMain([a EXCEPT !.rotations = Put(@, k, At(fit.R_fit, j)),
                                           !.translations = Put(@, k, At(fit.d_fit, j))],
                                 strand_pos, fit, j + 1)

\* WriteRun without the assignment to translations.
RECURSIVE WriteRunRotationOnly(_, _, _, _)
WriteRunRotationOnly(a, strand_pos, fit, j) ==
    IF j >= Len(strand_pos) THEN a
    ELSE LET k == At(strand_pos, j)
         IN  WriteRunRotationOnly([a EXCEPT !.is_main = Put(@, k, TRUE),
                                            !.rotations = Put(@, k, At(fit.R_fit, j))],
                                  strand_pos, fit, j + 1)

\* The update loop of _generate_bulge_dof for one run, from its j-th position.
RECURSIVE WriteRun(_, _, _, _)
WriteRun(a, strand_pos, fit, j) ==
    IF j >= Len(strand_pos) THEN a
    ELSE LET k == At(strand_pos, j)
         IN  WriteRun([a EXCEPT !.is_main = Put(@, k, TRUE),
                                !.rotations = Put(@, k, At(fit.R_fit, j)),
                                !.translations = Put(@, k, At(fit.d_fit, j))],
                      strand_pos, fit, j + 1)

\* InterpolateRun with the turned rotation of the first anchor stored back
\* into the array.
InterpolateRunStoresFlip(a, strand_pos) ==
    LET num_nt == Len(a.rotations)
        i_1 == IndexBefore(strand_pos, num_nt)
        i_2 == IndexAfter(strand_pos, num_nt)
    IN  IF AnchorRaises(a.rotations, a.is_main, i_1)
           \/ AnchorRaises(a.rotations, a.is_main, i_2)
        THEN [a EXCEPT !.err = "ValueError"]
        ELSE
        LET fit == FitRd(AnchorRotation(a.rotations, a.is_main, i_1),
                         At(a.translations, i_1),
                         AnchorRotation(a.rotations, a.is_main, i_2),
                         At(a.translations, i_2), Len(strand_pos))
            b == [a EXCEPT !.rotations =
                     Put(@, i_1, AnchorRotation(a.rotations, a.is_main, i_1))]
        IN  IF fit.err # "none" THEN [a EXCEPT !.err = fit.err]
            ELSE WriteRun(b, strand_pos, fit, 0)

\* The body of the loop over the runs in _generate_bulge_dof for one run.
\* a holds the arrays rotations, translations and is_main (changed in place)
\* and err, the exception raised ("none" while there is none).
InterpolateRun(a, strand_pos) ==
    LET num_nt == Len(a.rotations)
        i_1 == IndexBefore(strand_pos, num_nt)
        i_2 == IndexAfter(strand_pos, num_nt)
    IN  IF AnchorRaises(a.rotations, a.is_main, i_1)
           \/ AnchorRaises(a.rotations, a.is_main, i_2)
        THEN [a EXCEPT !.err = "ValueError"]
        ELSE
        LET fit == FitRd(AnchorRotation(a.rotations, a.is_main, i_1),
                         At(a.translations, i_1),
                         AnchorRotation(a.rotations, a.is_main, i_2),
                         At(a.translations, i_2), Len(strand_pos))
        IN  IF fit.err # "none" THEN [a EXCEPT !.err = fit.err]
            ELSE WriteRun(a, strand_pos, fit, 0)

RECURSIVE InterpolateRuns(_, _, _)
InterpolateRuns(a, single_strands, i) ==
    IF i > Len(single_strands) \/ a.err # "none" THEN a
    ELSE IF Len(single_strands[i]) = 0
    THEN InterpolateRuns(a, single_strands, i + 1)
    ELSE InterpolateRuns(InterpolateRun(a, single_strands[i]), single_strands, i + 1)

\* RemoveFreeEnds without the test of the last tour position.
RemoveHeadRunsOnly(single_strands, num_nt, is_circular) ==
    [i \in 1..Len(single_strands) |->
        LET strand_pos == single_strands[i]
        IN  IF ~is_circular /\ strand_pos[1] = 0 THEN <<>> ELSE strand_pos]

\* The removal of the single-stranded regions with free ends.
RemoveFreeEnds(single_strands, num_nt, is_circular) ==
    [i \in 1..Len(single_strands) |->
        LET strand_pos == single_strands[i]
        IN  IF ~is_circular
               /\ (strand_pos[1] = 0 \/ strand_pos[Len(strand_pos)] = num_nt - 1)
            THEN <<>>
            ELSE strand_pos]

\* AtomicStructure._generate_bulge_dof(strand, rotations, translations,
\* is_main, is_circular): the three arrays after the call and the exception
\* it raised, if any.
GenerateBulgeDof(rotations, translations, is_main, is_circular) ==
    LET num_nt == Len(rotations)
        single_strands ==
            RemoveFreeEnds(FindSingleStrands(rotations, is_circular), num_nt, is_circular)
    IN  InterpolateRuns([rotations |-> rotations, translations |-> translations,
                         is_main |-> is_main, err |-> "none"],
                        single_strands, 1)

\* ------------------------------------------------------------------ atoms and molecules
\* str.strip() of a name held as a sequence of one-character strings.
RECURSIVE LStrip(_)
LStrip(s) == IF Len(s) > 0 /\ Head(s) = " " THEN LStrip(Tail(s)) ELSE s

RECURSIVE RStrip(_)
RStrip(s) ==
    IF Len(s) > 0 /\ s[Len(s)] = " " THEN RStrip(SubSeq(s, 1, Len(s) - 1)) ELSE s

Strip(s) == RStrip(LStrip(s))

\* Atom coordinates: the point rot . v + d.  With a matrix of integer
\* entries the product is carried out (rot the identity, v zero).
ZeroVec == <<Rat(0, 1), Rat(0, 1), Rat(0, 1)>>
Point(d) == [rot |-> Exact(Identity), v |-> ZeroVec, d |-> d]

RatMatVec(A, v) ==
    [r \in 1..3 |-> RatAdd(RatAdd(RatScale(v[1], E(A, r - 1, 0)),
                                  RatScale(v[2], E(A, r - 1, 1))),
                           RatScale(v[3], E(A, r - 1, 2)))]

\* np.add(np.dot(R, coords), D) for the coordinates of a template atom.
Xform(R, coords, D) ==
    IF IsExact(R) THEN Point(VecAdd(RatMatVec(R.base, coords.d), D))
    ELSE [rot |-> R, v |-> coords.d, d |-> D]

\* Atom.__init__
Atom(id, name, res_name, chainID, res_seq_num, coords, element) ==
    [id |-> id, name |-> name, res_name |-> res_name, chainID |-> chainID,
     res_seq_num |-> res_seq_num, coords |-> coords, element |-> element]

\* Atom.dupe(): a new Atom with the same data.
Dupe(atom) ==
    Atom(atom.id, atom.name, atom.res_name, atom.chainID, atom.res_seq_num,
         atom.coords, atom.element)

\* Molecule.__init__(model_id).  residues maps a residue number to a map
\* from stripped atom names to atoms; an atom is referred to by its place
\* in the list atoms.
Molecule(model_id) ==
    [id |-> model_id, model_id |-> model_id, atoms |-> <<>>, chains |-> {},
     residues |-> <<>>]

\* The dictionary d with d[k] = v.
DictPut(d, k, v) == [x \in (DOMAIN d) \cup {k} |-> IF x = k THEN v ELSE d[x]]

\* AddAtom with an entry of residues that is there already left as it is.
AddAtomKeepsFirst(molecule, atom) ==
    LET res == IF atom.res_seq_num \in DOMAIN molecule.residues
               THEN molecule.residues
               ELSE DictPut(molecule.residues, atom.res_seq_num, <<>>)
        key == Strip(atom.name)
    IN  [molecule EXCEPT
            !.atoms = Append(@, atom),
            !.chains = @ \cup {atom.chainID},
            !.residues = IF key \in DOMAIN res[atom.res_seq_num] THEN res
                         ELSE DictPut(res, atom.res_seq_num,
                                  DictPut(res[atom.res_seq_num], key,
                                          Len(molecule.atoms) + 1))]

\* Molecule.add_atom(atom)
AddAtom(molecule, atom) ==
    LET res == IF atom.res_seq_num \in DOMAIN molecule.residues
               THEN molecule.residues
               ELSE DictPut(molecule.residues, atom.res_seq_num, <<>>)
    IN  [molecule EXCEPT
            !.atoms = Append(@, atom),
            !.chains = @ \cup {atom.chainID},
            !.residues = DictPut(res, atom.res_seq_num,
                DictPut(res[atom.res_seq_num], Strip(atom.name),
                        Len(molecule.atoms) + 1))]

\* ------------------------------------------------------------------ templates
BaseNames == {"A", "C", "G", "T"}
Complement(b) == CASE b = "A" -> "T" [] b = "T" -> "A" [] b = "C" -> "G" [] b = "G" -> "C"

\* Atom names of one residue of a template: two atoms for a purine, one for
\* a pyrimidine.
ResidueAtomNames(b) ==
    IF b \in {"A", "G"} THEN << <<" ", "P", " ">>, <<"N", "9", " ">> >>
    ELSE << <<" ", "P", " ">> >>

\* The atoms PdbReader reads from the template file of base b: chain S holds
\* three residues b, chain A three residues of the complement.
ChainAtoms(b, chain, sgn) ==
    LET names == ResidueAtomNames(b)
        n == Len(names)
    IN  [k \in 1..(3 * n) |->
            LET res == ((k - 1) \div n) + 1
                a == ((k - 1) % n) + 1
            IN  Atom(k, names[a], b, chain, res,
                     Point(IntVec(<<sgn * a, res, 0>>)), names[a][2])]

PdbFile(b) == ChainAtoms(b, "S", 1) \o ChainAtoms(Complement(b), "A", -1)

\* The loop of _read_template over the atoms of the file, for one of the two
\* lists: residue 2 of the chain, id and residue number reset, coordinates
\* rotated by R = Ry(-90) . Rx(-90).
RECURSIVE ReadChain(_, _, _, _)
ReadChain(atoms, k, chain, R) ==
    IF k > Len(atoms) THEN <<>>
    ELSE LET atom == atoms[k]
         IN  IF atom.chainID = chain /\ atom.res_seq_num = 2
             THEN << [atom EXCEPT !.id = -1, !.res_seq_num = -1,
                                  !.coords = Xform(R, atom.coords, ZeroVec),
                                  !.chainID = "A"] >>
                  \o ReadChain(atoms, k + 1, chain, R)
             ELSE ReadChain(atoms, k + 1, chain, R)

\* AtomicStructure._read_template(infile_name): forward and reverse lists.
ReadTemplate(b) ==
    LET R == Dot(Ry(-90), Rx(-90))
    IN  [forward |-> ReadChain(PdbFile(b), 1, "S", R),
         reverse |-> ReadChain(PdbFile(b), 1, "A", R)]

\* The two dictionaries _generate_atoms builds from the four templates.
ForwardStruct == [b \in BaseNames |-> ReadTemplate(b).forward]
ReverseStruct == [b \in BaseNames |-> ReadTemplate(Complement(b)).reverse]

\* ------------------------------------------------------------------ atom assembler
\* The local state of _create_atoms_from_strand: the Molecule, the serial
\* number of the next atom, and the objects it holds references to: the two
\* template dictionaries and the template list of the base at hand.
Assembly(model_id, first_atomID_in) ==
    [molecule |-> Molecule(model_id), first_atomID_out |-> first_atomID_in,
     current_struct |-> <<>>, forward_struct |-> <<>>, reverse_struct |-> <<>>]

\* StampAtoms without dupe(): the template atom itself is written and added.
RECURSIVE StampAtomsNoDupe(_, _, _, _, _, _, _)
StampAtomsNoDupe(m, current_struct, j, R, D, chainID, i) ==
    IF j > Len(current_struct) THEN [m EXCEPT !.current_struct = current_struct]
    ELSE LET current_atom ==
                 [current_struct[j] EXCEPT
                     !.id = m.first_atomID_out,
                     !.chainID = chainID,
                     !.res_seq_num = i + 1,
                     !.coords = Xform(R, current_struct[j].coords, D)]
         IN  StampAtomsNoDupe([m EXCEPT !.molecule = AddAtom(@, current_atom),
                                        !.first_atomID_out = @ + 1],
                              [current_struct EXCEPT ![j] = current_atom],
                              j + 1, R, D, chainID, i)

\* StampAtoms with the residue number of the 0-based tour index.
RECURSIVE StampAtomsZeroBased(_, _, _, _, _, _, _)
StampAtomsZeroBased(m, current_struct, j, R, D, chainID, i) ==
    IF j > Len(current_struct) THEN [m EXCEPT !.current_struct = current_struct]
    ELSE LET dupe == Dupe(current_struct[j])
             current_atom ==
                 [dupe EXCEPT
                     !.id = m.first_atomID_out,
                     !.chainID = chainID,
                     !.res_seq_num = i,
                     !.coords = Xform(R, dupe.coords, D)]
         IN  StampAtomsZeroBased([m EXCEPT !.molecule = AddAtom(@, current_atom),
                                           !.first_atomID_out = @ + 1],
                                 current_struct, j + 1, R, D, chainID, i)

\* The loop over the atoms of the template of one base (residue i, 0-based):
\* each atom is duplicated and the duplicate is written and added, so the
\* list current_struct is after the loop what it was before.
RECURSIVE StampAtoms(_, _, _, _, _, _, _)
StampAtoms(m, current_struct, j, R, D, chainID, i) ==
    IF j > Len(current_struct) THEN [m EXCEPT !.current_struct = current_struct]
    ELSE LET dupe == Dupe(current_struct[j])
             current_atom ==
                 [dupe EXCEPT
                     !.id = m.first_atomID_out,
                     !.chainID = chainID,
                     !.res_seq_num = i + 1,
                     !.coords = Xform(R, dupe.coords, D)]
         IN  StampAtoms([m EXCEPT !.molecule = AddAtom(@, current_atom),
                                  !.first_atomID_out = @ + 1],
                        current_struct, j + 1, R, D, chainID, i)

\* str.upper() of a one-letter string.
Upper(c) ==
    CASE c = "a" -> "A"
      [] c = "c" -> "C"
      [] c = "g" -> "G"
      [] c = "t" -> "T"
      [] c = "n" -> "N"
      [] OTHER -> c

\* StampBase with the forward list taken for a base that is not the main one
\* and the reverse list for a main base.
StampBaseSwapped(m, strand, forward_struct, reverse_struct, i) ==
    LET base_name == Upper(At(strand.seq, i))
        R == Dot(At(strand.rotations, i), Ry(180))
        D == At(strand.translations, i)
        current_struct == IF At(strand.is_main, i)
                          THEN reverse_struct[base_name]
                          ELSE forward_struct[base_name]
        r == StampAtoms(m, current_struct, 1, R, D, strand.chainID, i)
    IN  [r EXCEPT !.forward_struct = forward_struct,
                  !.reverse_struct = reverse_struct]

\* The body of the loop over the bases for a base that is not skipped: the
\* state after its atoms are stamped, the template list put back where the
\* dictionary holds it.
StampBase(m, strand, forward_struct, reverse_struct, i) ==
    LET base_name == Upper(At(strand.seq, i))
        R == Dot(At(strand.rotations, i), Ry(180))
        D == At(strand.translations, i)
        current_struct == IF At(strand.is_main, i)
                          THEN forward_struct[base_name]
                          ELSE reverse_struct[base_name]
        r == StampAtoms(m, current_struct, 1, R, D, strand.chainID, i)
    IN  [r EXCEPT
            !.forward_struct = IF At(strand.is_main, i)
                               THEN [forward_struct EXCEPT ![base_name] = r.current_struct]
                               ELSE forward_struct,
            !.reverse_struct = IF At(strand.is_main, i)
                               THEN reverse_struct
                               ELSE [reverse_struct EXCEPT ![base_name] = r.current_struct]]

\* StampBases with the serial number advanced for a skipped base too.
RECURSIVE StampBasesSkipTakesId(_, _, _, _, _)
StampBasesSkipTakesId(m, strand, fwd, rev, i) ==
    IF i >= Len(strand.rotations)
    THEN [m EXCEPT !.forward_struct = fwd, !.reverse_struct = rev]
    ELSE LET strand_R == At(strand.rotations, i)
             base_name == Upper(At(strand.seq, i))
             skipped == [m EXCEPT !.first_atomID_out = @ + 1]
         IN  IF strand_R.size = 0
             THEN StampBasesSkipTakesId(skipped, strand, fwd, rev, i + 1)
             ELSE IF base_name \notin DOMAIN fwd
             THEN StampBasesSkipTakesId(skipped, strand, fwd, rev, i + 1)
             ELSE LET r == StampBase(m, strand, fwd, rev, i)
                  IN  StampBasesSkipTakesId(r, strand, r.forward_struct,
                                            r.reverse_struct, i + 1)

\* StampBases without the test of the rotation: a base without a frame gets
\* the atoms of its template as they are.
RECURSIVE StampBasesUnsetStamped(_, _, _, _, _)
StampBasesUnsetStamped(m, strand, fwd, rev, i) ==
    IF i >= Len(strand.rotations)
    THEN [m EXCEPT !.forward_struct = fwd, !.reverse_struct = rev]
    ELSE LET strand_R == At(strand.rotations, i)
             base_name == Upper(At(strand.seq, i))
         IN  IF base_name \notin DOMAIN fwd
             THEN StampBasesUnsetStamped(m, strand, fwd, rev, i + 1)
             ELSE IF strand_R.size = 0
             THEN StampBasesUnsetStamped(
                      StampAtoms(m, fwd[base_name], 1, Exact(Identity), ZeroVec,
                                 strand.chainID, i),
                      strand, fwd, rev, i + 1)
             ELSE LET r == StampBase(m, strand, fwd, rev, i)
                  IN  StampBasesUnsetStamped(r, strand, r.forward_struct,
                                             r.reverse_struct, i + 1)

\* StampBases with the loop left at a letter without a template.
RECURSIVE StampBasesStopsAtUnknown(_, _, _, _, _)
StampBasesStopsAtUnknown(m, strand, fwd, rev, i) ==
    IF i >= Len(strand.rotations)
    THEN [m EXCEPT !.forward_struct = fwd, !.reverse_struct = rev]
    ELSE LET strand_R == At(strand.rotations, i)
             base_name == Upper(At(strand.seq, i))
         IN  IF strand_R.size = 0
             THEN StampBasesStopsAtUnknown(m, strand, fwd, rev, i + 1)
             ELSE IF base_name \notin DOMAIN fwd
             THEN [m EXCEPT !.forward_struct = fwd, !.reverse_struct = rev]
             ELSE LET r == StampBase(m, strand, fwd, rev, i)
                  IN  StampBasesStopsAtUnknown(r, strand, r.forward_struct,
                                               r.reverse_struct, i + 1)

\* The loop over the bases of _create_atoms_from_strand, from base i.
RECURSIVE StampBases(_, _, _, _, _)
StampBases(m, strand, forward_struct, reverse_struct, i) ==
    IF i >= Len(strand.rotations)
    THEN [m EXCEPT !.forward_struct = forward_struct,
                   !.reverse_struct = reverse_struct]
    ELSE LET strand_R == At(strand.rotations, i)
             base_name == Upper(At(strand.seq, i))
         IN  IF strand_R.size = 0
             THEN StampBases(m, strand, forward_struct, reverse_struct, i + 1)
             ELSE IF base_name \notin DOMAIN forward_struct
             THEN StampBases(m, strand, forward_struct, reverse_struct, i + 1)
             ELSE LET r == StampBase(m, strand, forward_struct, reverse_struct, i)
                  IN  StampBases(r, strand, r.forward_struct, r.reverse_struct, i + 1)

\* CreateAtomsFromStrand with the serial numbers of every strand starting at 1.
CreateAtomsFromStrandRestarts(strand, fwd, rev, first_atomID_in) ==
    StampBases(Assembly(strand.id, 1), strand, fwd, rev, 0)

\* CreateAtomsFromStrand with every Molecule made for model id 0.
CreateAtomsFromStrandUnkeyed(strand, fwd, rev, first_atomID_in) ==
    StampBases(Assembly(0, first_atomID_in), strand, fwd, rev, 0)

\* AtomicStructure._create_atoms_from_strand(strand, forward_struct,
\* reverse_struct, first_atomID_in): the Molecule and first_atomID_out it
\* returns, and the template dictionaries as the call leaves them.
CreateAtomsFromStrand(strand, forward_struct, reverse_struct, first_atomID_in) ==
    StampBases(Assembly(strand.id, first_atomID_in), strand,
               forward_struct, reverse_struct, 0)

\* ------------------------------------------------------------------ state
VARIABLES
    \* the DnaStructure: base_connectivity, strands, id_nt, helix_axis_coords
    \* and helix_axis_frames
    base_connectivity, dna_strands, id_nt, helix_axis_coords, helix_axis_frames,
    \* the AtomicStructure: strands (AtomicStructureStrand) and molecules
    strands, molecules,
    \* the running call: where it is, which of generate_structure ("ds") and
    \* generate_structure_ss ("ss") it is, the strand its loop is at, the
    \* locals molecular_structures and first_atomID of _generate_atoms,
    \* whether the templates are read, and the exception that ended it
    pc, mode, cur, molecular_structures, first_atomID, templates_read,
    forward_struct, reverse_struct, err,
    \* history: the arrays each strand had when the bulge loop started, the
    \* DnaStructure as it was handed over, the number of runs started and the
    \* molecules the first run returned
    before, given, runs, first_result,
    \* a function of utils.py or atomic_types.py, or _find_single_strands,
    \* called on its own: its arguments, its locals and what it returned
    call

vars == <<base_connectivity, dna_strands, id_nt, helix_axis_coords, helix_axis_frames,
          strands, molecules, pc, mode, cur, molecular_structures, first_atomID,
          templates_read, forward_struct, reverse_struct, err,
          before, given, runs, first_result, call>>

\* No function is called on its own.
NoCall == [fn |-> "none"]

template_vars == <<templates_read, forward_struct, reverse_struct>>

dna_vars == <<base_connectivity, dna_strands, id_nt, helix_axis_coords, helix_axis_frames>>

\* The frame and coordinate data of the DnaStructure.
StructureData ==
    [helix_axis_coords |-> helix_axis_coords,
     helix_axis_frames |-> helix_axis_frames,
     ref_frames |-> [k \in 1..Len(base_connectivity) |-> base_connectivity[k].ref_frame],
     base_coords |-> [k \in 1..Len(base_connectivity) |-> base_connectivity[k].coords]]

Arrays(strand) ==
    [rotations |-> strand.rotations, translations |-> strand.translations,
     is_main |-> strand.is_main]

\* ------------------------------------------------------------------ construction
\* AtomicStructureStrand.__init__(strand)
AtomicStructureStrand(strand, base_conn) ==
    LET size == Len(strand.tour)
        first_base == At(base_conn, strand.tour[1] - 1)
    IN  [id |-> strand.id, tour |-> strand.tour,
         is_circular |-> strand.is_circular, is_scaffold |-> strand.is_scaffold,
         is_main |-> [k \in 1..size |-> FALSE],
         seq |-> [k \in 1..size |-> "N"],
         rotations |-> [k \in 1..size |-> EmptyMat],
         translations |-> [k \in 1..size |-> EmptyVec],
         chainID |-> <<IF strand.is_scaffold THEN "sc" ELSE "st",
                       first_base.h, first_base.p>>]

\* AtomicStructure._init_strand_data()
InitStrandData(ds, base_conn) ==
    [k \in 1..Len(ds) |-> AtomicStructureStrand(ds[k], base_conn)]

\* DnaStrand.get_base_index(base): the 0-based place of the base in the tour.
GetBaseIndex(strand, base) ==
    CHOOSE i \in 0..(Len(strand.tour) - 1) : At(strand.tour, i) = base.id

\* ------------------------------------------------------------------ frame initializer
\* Rotation to convert frame [e1 e2 e3] to [-e2 e3 -e1].
rot_mat == <<0, 0, -1,  -1, 0, 0,  0, 1, 0>>

\* The frame with the directions of its columns 0 and 2 reversed.
ReverseDirections(M) ==
    LET f(r, c) == IF c \in {0, 2} THEN -E(M, r, c) ELSE E(M, r, c)
    IN  Mat(f)

\* SetPair without the assignments to the paired base.
SetPairFirstOnly(strs, i, base_conn, pairs, base_nodes, triads) ==
    LET R == Dot(Exact(At(triads, i)), Exact(rot_mat))
        base1 == At(base_conn, At(pairs, i)[1])
        s1 == base1.strand + 1
        x1 == GetBaseIndex(strs[s1], base1)
    IN  [strs EXCEPT ![s1].is_main = Put(@, x1, TRUE),
                     ![s1].seq = Put(@, x1, base1.seq),
                     ![s1].rotations = Put(@, x1, R),
                     ![s1].translations = Put(@, x1, At(base_nodes, i))]

\* SetPair with the paired base marked as the main base too.
SetPairBothMain(strs, i, base_conn, pairs, base_nodes, triads) ==
    LET R == Dot(Exact(At(triads, i)), Exact(rot_mat))
        base1 == At(base_conn, At(pairs, i)[1])
        s1 == base1.strand + 1
        x1 == GetBaseIndex(strs[s1], base1)
        a == [strs EXCEPT ![s1].is_main = Put(@, x1, TRUE),
                          ![s1].seq = Put(@, x1, base1.seq),
                          ![s1].rotations = Put(@, x1, R),
                          ![s1].translations = Put(@, x1, At(base_nodes, i))]
        base2 == At(base_conn, At(pairs, i)[2])
        s2 == base2.strand + 1
        x2 == GetBaseIndex(a[s2], base2)
    IN  [a EXCEPT ![s2].is_main = Put(@, x2, TRUE),
                  ![s2].seq = Put(@, x2, base2.seq),
                  ![s2].rotations = Put(@, x2, R),
                  ![s2].translations = Put(@, x2, At(base_nodes, i))]

\* The body of the loop of generate_structure over the rows of id_nt, for
\* row i (0-based): both bases of the pair get the row's frame.
SetPair(strs, i, base_conn, pairs, base_nodes, triads) ==
    LET R == Dot(Exact(At(triads, i)), Exact(rot_mat))
        base1 == At(base_conn, At(pairs, i)[1])
        s1 == base1.strand + 1
        x1 == GetBaseIndex(strs[s1], base1)
        a == [strs EXCEPT ![s1].is_main = Put(@, x1, TRUE),
                          ![s1].seq = Put(@, x1, base1.seq),
                          ![s1].rotations = Put(@, x1, R),
                          ![s1].translations = Put(@, x1, At(base_nodes, i))]
        base2 == At(base_conn, At(pairs, i)[2])
        s2 == base2.strand + 1
        x2 == GetBaseIndex(a[s2], base2)
    IN  [a EXCEPT ![s2].is_main = Put(@, x2, FALSE),
                  ![s2].seq = Put(@, x2, base2.seq),
                  ![s2].rotations = Put(@, x2, R),
                  ![s2].translations = Put(@, x2, At(base_nodes, i))]

RECURSIVE SetPairs(_, _, _, _, _, _)
SetPairs(strs, i, base_conn, pairs, base_nodes, triads) ==
    IF i >= Len(pairs) THEN strs
    ELSE SetPairs(SetPair(strs, i, base_conn, pairs, base_nodes, triads),
                  i + 1, base_conn, pairs, base_nodes, triads)

\* A call may start on a fresh AtomicStructure or after an earlier call
\* returned; a program keeps to one of the two generators (which).
MayStart(which) ==
    /\ pc \in {"idle", "done"}
    /\ runs < MaxRuns
    /\ runs = 0 \/ mode = which

\* generate_structure up to the end of its loop over id_nt: the helix-axis
\* coordinates are scaled and the helix-axis frames reversed in the arrays of
\* the DnaStructure, then every pair sets the data of its two bases.
GenerateStructure ==
    /\ MayStart("ds")
    /\ LET base_nodes == [k \in 1..Len(helix_axis_coords) |->
                             IF k <= Len(id_nt) THEN VecScale(helix_axis_coords[k], 10)
                             ELSE helix_axis_coords[k]]
           triads == [k \in 1..Len(helix_axis_frames) |->
                         IF k <= Len(id_nt) THEN ReverseDirections(helix_axis_frames[k])
                         ELSE helix_axis_frames[k]]
           strs == SetPairs(strands, 0, base_connectivity, id_nt, base_nodes, triads)
       IN  /\ helix_axis_coords' = base_nodes
           /\ helix_axis_frames' = triads
           /\ strands' = strs
           /\ before' = [k \in 1..Len(strs) |-> Arrays(strs[k])]
    /\ pc' = "bulge"
    /\ mode' = "ds"
    /\ cur' = 1
    /\ runs' = runs + 1
    /\ UNCHANGED <<base_connectivity, dna_strands, id_nt, molecules,
                   molecular_structures, first_atomID, template_vars, err,
                   given, first_result>>
    /\ UNCHANGED call

\* The body of the loop of generate_structure_ss over the bases of a strand:
\* the reference frame of the base is reversed in place.
RECURSIVE SetBases(_, _, _)
SetBases(st, i, strand_no) ==
    IF i >= Len(st.strands[strand_no].tour) THEN st
    ELSE LET base == At(st.base_conn, At(st.strands[strand_no].tour, i) - 1)
             frame == ReverseDirections(base.ref_frame)
             strand == st.strands[strand_no]
         IN  SetBases(
                [base_conn |-> Put(st.base_conn, base.id - 1,
                                   [base EXCEPT !.ref_frame = frame]),
                 strands |-> [st.strands EXCEPT
                    ![strand_no].is_main = Put(@, i, strand.is_scaffold),
                    ![strand_no].seq = Put(@, i, IF base.seq = "N" THEN "A" ELSE base.seq),
                    ![strand_no].rotations = Put(@, i, Dot(Exact(frame), Exact(rot_mat))),
                    ![strand_no].translations = Put(@, i, VecScale(base.coords, 10))]],
                i + 1, strand_no)

RECURSIVE SetStrands(_, _)
SetStrands(st, strand_no) ==
    IF strand_no > Len(st.strands) THEN st
    ELSE SetStrands(SetBases(st, 0, strand_no), strand_no + 1)

\* generate_structure_ss up to the end of its loop over the strands.
GenerateStructureSS ==
    /\ MayStart("ss")
    /\ LET st == SetStrands([base_conn |-> base_connectivity, strands |-> strands], 1)
       IN  /\ base_connectivity' = st.base_conn
           /\ strands' = st.strands
           /\ before' = [k \in 1..Len(st.strands) |-> Arrays(st.strands[k])]
    /\ pc' = "bulge"
    /\ mode' = "ss"
    /\ cur' = 1
    /\ runs' = runs + 1
    /\ UNCHANGED <<dna_strands, id_nt, helix_axis_coords, helix_axis_frames, molecules,
                   molecular_structures, first_atomID, template_vars, err,
                   given, first_result>>
    /\ UNCHANGED call

\* ------------------------------------------------------------------ the bulge loop
\* The loop over seq after _generate_bulge_dof: an 'N' is replaced by the
\* letter of the base of that tour position.
FillSequence(strand, base_conn) ==
    [k \in 1..Len(strand.seq) |->
        IF strand.seq[k] = "N" THEN At(base_conn, strand.tour[k] - 1).seq
        ELSE strand.seq[k]]

\* One pass of the loop "for strand in self.strands" that creates the bulges
\* (the same code in generate_structure and generate_structure_ss).  An
\* exception of _generate_bulge_dof ends the call; the arrays keep what was
\* written before it.
CreateBulges ==
    /\ pc = "bulge"
    /\ cur <= Len(strands)
    /\ \E a \in {GenerateBulgeDof(strands[cur].rotations, strands[cur].translations,
                                  strands[cur].is_main, strands[cur].is_circular)} :
       LET strand == strands[cur]
           written == [strand EXCEPT !.rotations = a.rotations,
                                     !.translations = a.translations,
                                     !.is_main = a.is_main]
       IN  IF a.err # "none"
           THEN /\ strands' = [strands EXCEPT ![cur] = written]
                /\ pc' = "error"
                /\ err' = a.err
                /\ cur' = cur
           ELSE /\ strands' = [strands EXCEPT ![cur] =
                       [written EXCEPT !.seq = FillSequence(written, base_connectivity)]]
                /\ pc' = IF cur = Len(strands) THEN "templates" ELSE "bulge"
                /\ err' = err
                /\ cur' = cur + 1
    /\ UNCHANGED <<dna_vars, molecules, mode, molecular_structures, first_atomID,
                   template_vars, before, given, runs, first_result>>
    /\ UNCHANGED call

\* ReadTemplates with self.molecules set to a list of one empty Molecule
\* while templates are still to be read.
ReadTemplatesAfterOutput ==
    /\ pc = "templates"
    /\ molecules' = <<Molecule(0)>>
    /\ UNCHANGED <<dna_vars, strands, pc, mode, cur, molecular_structures,
                   first_atomID, template_vars, err, before, given, runs,
                   first_result>>
    /\ UNCHANGED call

\* ------------------------------------------------------------------ the atom loop
\* _generate_atoms up to its loop: the four templates are read and the two
\* dictionaries built; the first atom gets serial number 1.
ReadTemplates ==
    /\ pc = "templates"
    /\ templates_read' = TRUE
    /\ forward_struct' = ForwardStruct
    /\ reverse_struct' = ReverseStruct
    /\ molecular_structures' = <<>>
    /\ first_atomID' = 1
    /\ cur' = 1
    /\ pc' = "atoms"
    /\ UNCHANGED <<dna_vars, strands, molecules, mode, err, before, given, runs,
                   first_result>>
    /\ UNCHANGED call

\* A template file that cannot be read: the exception of the reader ends
\* the call.
ReadTemplatesFails ==
    /\ pc = "templates"
    /\ pc' = "error"
    /\ err' = "IOError"
    /\ UNCHANGED <<dna_vars, strands, molecules, mode, cur, molecular_structures,
                   first_atomID, template_vars, before, given, runs, first_result>>
    /\ UNCHANGED call

\* One pass of the loop "for strand in strands" of _generate_atoms.
CreateAtoms ==
    /\ pc = "atoms"
    /\ cur <= Len(strands)
    /\ \E m \in {CreateAtomsFromStrand(strands[cur], forward_struct, reverse_struct,
                                       first_atomID)} :
           /\ molecular_structures' = Append(molecular_structures, m.molecule)
           /\ first_atomID' = m.first_atomID_out
           /\ forward_struct' = m.forward_struct
           /\ reverse_struct' = m.reverse_struct
    /\ cur' = cur + 1
    /\ UNCHANGED <<dna_vars, strands, molecules, pc, mode, templates_read, err,
                   before, given, runs, first_result>>
    /\ UNCHANGED call

\* The return of _generate_atoms and of generate_structure: self.molecules is
\* set to the list of molecules.
Return ==
    /\ pc = "atoms"
    /\ cur > Len(strands)
    /\ molecules' = molecular_structures
    /\ first_result' = IF runs = 1 THEN molecular_structures ELSE first_result
    /\ pc' = "done"
    /\ UNCHANGED <<dna_vars, strands, mode, cur, molecular_structures, first_atomID,
                   template_vars, err, before, given, runs>>
    /\ UNCHANGED call

\* AtomicStructure.__init__(dna_structure) on the DnaStructure of an earlier
\* AtomicStructure.
NewAtomicStructure ==
    /\ pc = "done"
    /\ runs < MaxRuns
    /\ strands' = InitStrandData(dna_strands, base_connectivity)
    /\ molecules' = <<>>
    /\ pc' = "idle"
    /\ UNCHANGED <<dna_vars, mode, cur, molecular_structures, first_atomID,
                   template_vars, err, before, given, runs, first_result>>
    /\ UNCHANGED call

\* ------------------------------------------------------------------ the DNA structures
\* Two helix-axis frames with their axis coordinates (in nm).
AxisFrames ==
    << [triad |-> Identity, node |-> <<1, 2, 0>>],
       [triad |-> <<0, -1, 0,  1, 0, 0,  0, 0, 1>>, node |-> <<0, -1, 3>>] >>

\* Sequences of tour lengths (each at least 1) that add up to n.
RECURSIVE Compositions(_)
Compositions(n) ==
    IF n = 0 THEN {<<>>}
    ELSE UNION {{<<k>> \o c : c \in Compositions(n - k)} : k \in 1..n}

Shapes(max) == UNION {Compositions(n) : n \in 1..max}

RECURSIVE Sum(_)
Sum(lens) == IF lens = <<>> THEN 0 ELSE Head(lens) + Sum(Tail(lens))

Offset(lens, s) == Sum(SubSeq(lens, 1, s - 1))

\* The strand (1-based) whose tour holds the base with id k.
StrandOf(lens, k) ==
    CHOOSE s \in 1..Len(lens) : Offset(lens, s) < k /\ k <= Offset(lens, s) + lens[s]

LetterOf(k) == <<"A", "N", "T", "G", "C">>[((k - 1) % 5) + 1]

\* base_connectivity: the bases, ids 1.. in tour order of the strands; base k
\* sits at place k - 1.  Helix h is the strand's number, p the place in it.
MakeBases(lens) ==
    [k \in 1..Sum(lens) |->
        [id |-> k, h |-> StrandOf(lens, k) - 1,
         p |-> k - Offset(lens, StrandOf(lens, k)) - 1,
         seq |-> LetterOf(k), strand |-> StrandOf(lens, k) - 1,
         ref_frame |-> AxisFrames[(k % 2) + 1].triad,
         coords |-> IntVec(<<k, 0, 1>>)]]

\* The strands: the first is the scaffold, the others are staples.
MakeStrands(lens, circ) ==
    [s \in 1..Len(lens) |->
        [id |-> s - 1, tour |-> [i \in 1..lens[s] |-> Offset(lens, s) + i],
         is_circular |-> circ, is_scaffold |-> (s = 1)]]

\* Pairing tables: a row pairs a scaffold base with a staple base (places in
\* base_connectivity) and carries one of the axis frames; no base is in two
\* rows.
Rows(lens) ==
    {<<b1, b2, f>> : b1 \in 0..(lens[1] - 1), b2 \in lens[1]..(Sum(lens) - 1),
                     f \in 1..Len(AxisFrames)}

RowFree(t, r) == \A i \in 1..Len(t) : t[i][1] # r[1] /\ t[i][2] # r[2]

RECURSIVE Tables(_, _)
Tables(rows, k) ==
    IF k = 0 THEN {<<>>}
    ELSE LET T == Tables(rows, k - 1)
         IN  T \cup {Append(x[1], x[2]) :
                     x \in {y \in T \X rows : Len(y[1]) = k - 1 /\ RowFree(y[1], y[2])}}

MaxPairs == MaxBases \div 2

\* The state after AtomicStructure.__init__ on a DnaStructure.
Constructed(bases, dstrands, table) ==
    /\ base_connectivity = bases
    /\ dna_strands = dstrands
    /\ id_nt = [i \in 1..Len(table) |-> <<table[i][1], table[i][2]>>]
    /\ helix_axis_coords = [i \in 1..Len(table) |-> IntVec(AxisFrames[table[i][3]].node)]
    /\ helix_axis_frames = [i \in 1..Len(table) |-> AxisFrames[table[i][3]].triad]
    /\ strands = InitStrandData(dstrands, bases)
    /\ molecules = <<>>
    /\ pc = "idle"
    /\ mode = "ds"
    /\ cur = 1
    /\ molecular_structures = <<>>
    /\ first_atomID = 1
    /\ templates_read = FALSE
    /\ forward_struct = [b \in BaseNames |-> <<>>]
    /\ reverse_struct = [b \in BaseNames |-> <<>>]
    /\ err = "none"
    /\ before = [k \in 1..Len(dstrands) |-> Arrays(strands[k])]
    /\ given = StructureData
    /\ runs = 0
    /\ first_result = <<>>

Init ==
    \E lens \in Shapes(MaxBases) : \E circ \in BOOLEAN :
        \E table \in Tables(Rows(lens), MaxPairs) :
            /\ Constructed(MakeBases(lens), MakeStrands(lens, circ), table)
            /\ call = NoCall

Next ==
    \/ GenerateStructure
    \/ GenerateStructureSS
    \/ CreateBulges
    \/ ReadTemplates
    \/ ReadTemplatesFails
    \/ CreateAtoms
    \/ Return
    \/ NewAtomicStructure

Spec == Init /\ [][Next]_vars

\* ------------------------------------------------------------------ one strand before the bulge loop
\* The frames a base can have after the frame initializer: rotation
\* triad . rot_mat of a reversed helix-axis frame, translation in Angstrom.
PairFrame(triad, node) ==
    [R |-> Dot(Exact(ReverseDirections(triad)), Exact(rot_mat)),
     d |-> VecScale(IntVec(node), 10)]

BulgeFrames ==
    << PairFrame(AxisFrames[1].triad, AxisFrames[1].node),
       PairFrame(AxisFrames[2].triad, AxisFrames[2].node),
       PairFrame(AxisFrames[1].triad, AxisFrames[2].node) >>

\* What one tour position holds: unset (is_main False), or one of the frames
\* as the main base of its pair or as its partner.
BulgeCells ==
    {[set |-> FALSE, main |-> FALSE, f |-> 1]}
    \cup {[set |-> TRUE, main |-> m, f |-> f] : m \in BOOLEAN, f \in {1, 3}}
    \cup {[set |-> TRUE, main |-> TRUE, f |-> 2]}

\* The state in which the bulge loop starts on a structure of one strand
\* whose positions hold the given cells.
InitBulge ==
    \E n \in 1..MaxNt : \E circ \in BOOLEAN : \E cells \in [1..n -> BulgeCells] :
        LET bases == MakeBases(<<n>>)
            dstrands == MakeStrands(<<n>>, circ)
            strand == [AtomicStructureStrand(dstrands[1], bases) EXCEPT
                !.is_main = [k \in 1..n |-> cells[k].main],
                !.seq = [k \in 1..n |-> IF cells[k].set THEN bases[k].seq ELSE "N"],
                !.rotations = [k \in 1..n |->
                    IF cells[k].set THEN BulgeFrames[cells[k].f].R ELSE EmptyMat],
                !.translations = [k \in 1..n |->
                    IF cells[k].set THEN BulgeFrames[cells[k].f].d ELSE EmptyVec]]
        IN  /\ base_connectivity = bases
            /\ dna_strands = dstrands
            /\ id_nt = <<>>
            /\ helix_axis_coords = <<>>
            /\ helix_axis_frames = <<>>
            /\ strands = <<strand>>
            /\ molecules = <<>>
            /\ pc = "bulge"
            /\ mode = "ds"
            /\ cur = 1
            /\ molecular_structures = <<>>
            /\ first_atomID = 1
            /\ templates_read = FALSE
            /\ forward_struct = [b \in BaseNames |-> <<>>]
            /\ reverse_struct = [b \in BaseNames |-> <<>>]
            /\ err = "none"
            /\ before = <<Arrays(strand)>>
            /\ given = StructureData
            /\ runs = 1
            /\ first_result = <<>>
            /\ call = NoCall

SpecBulge == InitBulge /\ [][CreateBulges]_vars

\* The bulge loop on one strand and the atom loop after it.
NextBulgeAtoms ==
    \/ CreateBulges
    \/ ReadTemplates
    \/ ReadTemplatesFails
    \/ CreateAtoms
    \/ Return

SpecBulgeAtoms == InitBulge /\ [][NextBulgeAtoms]_vars

\* ------------------------------------------------------------------ strands before the atom loop
\* What one tour position holds when the atoms are made: no frame, a main
\* base A, a partner base written t, or a base with a letter that has no
\* template.
AsmCells ==
    {[set |-> FALSE, main |-> FALSE, seq |-> "A"],
     [set |-> TRUE, main |-> TRUE, seq |-> "A"],
     [set |-> TRUE, main |-> FALSE, seq |-> "t"],
     [set |-> TRUE, main |-> TRUE, seq |-> "X"]}

\* The state in which _generate_atoms starts on strands whose positions hold
\* the given cells (cells: one cell per base id).
InitAtoms ==
    \E lens \in Shapes(MaxAsmBases) : \E cells \in [1..Sum(lens) -> AsmCells] :
        LET bases == MakeBases(lens)
            dstrands == MakeStrands(lens, FALSE)
            strs == [s \in 1..Len(lens) |->
                LET c(k) == cells[dstrands[s].tour[k]]
                IN  [AtomicStructureStrand(dstrands[s], bases) EXCEPT
                        !.is_main = [k \in 1..lens[s] |-> c(k).main],
                        !.seq = [k \in 1..lens[s] |-> c(k).seq],
                        !.rotations = [k \in 1..lens[s] |->
                            IF c(k).set THEN BulgeFrames[1].R ELSE EmptyMat],
                        !.translations = [k \in 1..lens[s] |->
                            IF c(k).set THEN BulgeFrames[1].d ELSE EmptyVec]]]
        IN  /\ base_connectivity = bases
            /\ dna_strands = dstrands
            /\ id_nt = <<>>
            /\ helix_axis_coords = <<>>
            /\ helix_axis_frames = <<>>
            /\ strands = strs
            /\ molecules = <<>>
            /\ pc = "templates"
            /\ mode = "ds"
            /\ cur = 1
            /\ molecular_structures = <<>>
            /\ first_atomID = 1
            /\ templates_read = FALSE
            /\ forward_struct = [b \in BaseNames |-> <<>>]
            /\ reverse_struct = [b \in BaseNames |-> <<>>]
            /\ err = "none"
            /\ before = [k \in 1..Len(strs) |-> Arrays(strs[k])]
            /\ given = StructureData
            /\ runs = 1
            /\ first_result = <<>>
            /\ call = NoCall

NextAtoms ==
    \/ ReadTemplates
    \/ ReadTemplatesFails
    \/ CreateAtoms
    \/ Return

SpecAtoms == InitAtoms /\ [][NextAtoms]_vars

\* ------------------------------------------------------------------ properties
\* _generate_bulge_dof raised on strand s.
Raised(s) == pc = "error" /\ err # "IOError" /\ s = cur

\* _generate_bulge_dof returned for strand s.
Interpolated(s) ==
    \/ pc = "bulge" /\ s < cur
    \/ pc \in {"templates", "atoms", "done"}
    \/ pc = "error" /\ (err = "IOError" \/ s < cur)

StrandNos == 1..Len(strands)
Positions(s) == 0..(Len(strands[s].rotations) - 1)

\* Position p had no frame when the bulge loop started / has none now.
WasUnset(s, p) == At(before[s].rotations, p).size = 0
Resolved(s, p) ==
    At(strands[s].rotations, p).size = 9 /\ Len(At(strands[s].translations, p)) = 3
StillUnset(s, p) ==
    At(strands[s].rotations, p).size = 0 /\ Len(At(strands[s].translations, p)) = 0

\* Position p of the linear strand s was in a run of unset positions that
\* touches tour position 0 or the last tour position.
InFreeEndRun(s, p) ==
    \/ \A q \in 0..p : WasUnset(s, q)
    \/ \A q \in p..(Len(strands[s].rotations) - 1) : WasUnset(s, q)

\* C3: for a linear strand, after _generate_bulge_dof every position of an
\* unset run that touches neither tour position 0 nor the last tour position
\* has its rotation and translation set (and the call does not raise).
C3_InteriorRunsResolved ==
    \A s \in StrandNos :
        ~strands[s].is_circular =>
            /\ ~Raised(s)
            /\ Interpolated(s) =>
                 \A p \in Positions(s) :
                    (WasUnset(s, p) /\ ~InFreeEndRun(s, p)) => Resolved(s, p)

\* A linear strand with an interior run of two unset positions, interpolated.
C3_Witness ==
    \E s \in StrandNos : \E p \in Positions(s) :
        /\ ~strands[s].is_circular
        /\ Interpolated(s)
        /\ p + 1 \in Positions(s)
        /\ WasUnset(s, p) /\ ~InFreeEndRun(s, p)
        /\ WasUnset(s, p + 1) /\ ~InFreeEndRun(s, p + 1)
        /\ Resolved(s, p) /\ Resolved(s, p + 1)

\* C4: for a linear strand, after _generate_bulge_dof every position of an
\* unset run that touches tour position 0 or the last tour position is still
\* unset (rotation and translation), also when the whole strand is unset.
C4_FreeEndRunsUnset ==
    \A s \in StrandNos :
        (~strands[s].is_circular /\ Interpolated(s)) =>
            \A p \in Positions(s) :
                (WasUnset(s, p) /\ InFreeEndRun(s, p)) => StillUnset(s, p)

\* A linear strand with an unset tail behind a resolved base and an interior
\* run that was filled.
C4_Witness ==
    \E s \in StrandNos : \E p, q \in Positions(s) :
        /\ ~strands[s].is_circular
        /\ Interpolated(s)
        /\ ~WasUnset(s, 0)
        /\ WasUnset(s, p) /\ InFreeEndRun(s, p) /\ StillUnset(s, p)
        /\ WasUnset(s, q) /\ ~InFreeEndRun(s, q) /\ Resolved(s, q)

\* A linear strand with no frame at all stays without any.
C4_WitnessAllUnset ==
    \E s \in StrandNos :
        /\ ~strands[s].is_circular
        /\ Interpolated(s)
        /\ Len(strands[s].rotations) > 1
        /\ \A p \in Positions(s) : WasUnset(s, p) /\ StillUnset(s, p)

\* C5: a circular strand none of whose positions had a frame ends with no
\* unset frame after _generate_bulge_dof.
C5_FullySingleStrandedCircular ==
    \A s \in StrandNos :
        (/\ strands[s].is_circular
         /\ \A p \in Positions(s) : WasUnset(s, p)
         /\ Interpolated(s) \/ Raised(s))
        => (~Raised(s) /\ \A p \in Positions(s) : Resolved(s, p))

\* C6: a circular strand with at least one resolved base has no unset
\* position after _generate_bulge_dof, also when an unset run wraps from the
\* last tour positions through position 0.
C6_CircularAllResolved ==
    \A s \in StrandNos :
        (/\ strands[s].is_circular
         /\ \E p \in Positions(s) : ~WasUnset(s, p)
         /\ Interpolated(s) \/ Raised(s))
        => (~Raised(s) /\ \A p \in Positions(s) : Resolved(s, p))

\* The position k steps before / after p on the tour of strand s (wrapping).
Before(s, p, k) == (p - k) % Len(strands[s].rotations)
After(s, p, k) == (p + k) % Len(strands[s].rotations)

\* Whether the tour has a position k steps before / after p: always on a
\* circular strand, up to the ends on a linear one.
HasBefore(s, p, k) == strands[s].is_circular \/ p - k >= 0
HasAfter(s, p, k) == strands[s].is_circular \/ p + k <= Len(strands[s].rotations) - 1

\* The number of unset positions directly before / after p in its run.
RunBefore(s, p) ==
    CHOOSE k \in 0..(Len(strands[s].rotations) - 1) :
        /\ \A i \in 1..k : HasBefore(s, p, i) /\ WasUnset(s, Before(s, p, i))
        /\ \/ k = Len(strands[s].rotations) - 1
           \/ ~HasBefore(s, p, k + 1)
           \/ ~WasUnset(s, Before(s, p, k + 1))

RunAfter(s, p) ==
    CHOOSE k \in 0..(Len(strands[s].rotations) - 1) :
        /\ \A i \in 1..k : HasAfter(s, p, i) /\ WasUnset(s, After(s, p, i))
        /\ \/ k = Len(strands[s].rotations) - 1
           \/ ~HasAfter(s, p, k + 1)
           \/ ~WasUnset(s, After(s, p, k + 1))

\* The bases bounding the run of p, and the frames they held.
FirstAnchor(s, p) == Before(s, p, RunBefore(s, p) + 1)
SecondAnchor(s, p) == After(s, p, RunAfter(s, p) + 1)
StoredFrame(s, i) == <<At(before[s].rotations, i), At(before[s].translations, i)>>
Frame(s, p) == <<At(strands[s].rotations, p), At(strands[s].translations, p)>>

\* The rotation of an anchor as the interpolation takes it: turned by 180
\* degrees about Z when the base is not the main one of its pair.
HalfTurnZ == Exact(<<-1, 0, 0,  0, -1, 0,  0, 0, 1>>)
Effective(s, i) ==
    IF At(before[s].is_main, i) THEN At(before[s].rotations, i)
    ELSE Dot(At(before[s].rotations, i), HalfTurnZ)

\* Axis and angle of R2 . transpose(R1) for the anchors of the run of p.
Relative(s, p) ==
    vrrotmat2vec(Dot(Effective(s, SecondAnchor(s, p)),
                     TransposeOf(Effective(s, FirstAnchor(s, p)))))

\* Position p of strand s was filled by the interpolator.
Filled(s, p) == WasUnset(s, p) /\ At(strands[s].rotations, p).size # 0

\* The translation t is (d1 * (n + 1 - j) + d2 * j) / (n + 1).
IsBlend(t, d1, d2, n, j) ==
    \A c \in 1..3 :
        t[c][1] * (n + 1) * d1[c][2] * d2[c][2]
            = t[c][2] * (d1[c][1] * (n + 1 - j) * d2[c][2] + d2[c][1] * j * d1[c][2])

\* C7: a run of n unset positions gets exactly n frames; the j-th position of
\* the run in tour order gets the rotation by theta * j / (n + 1) about the
\* axis of R2 . transpose(R1), applied to R1, and the translation
\* (d1 * (n + 1 - j) + d2 * j) / (n + 1).
C7_BlendFractions ==
    \A s \in StrandNos : \A p \in Positions(s) :
        Filled(s, p) =>
            LET n == RunBefore(s, p) + RunAfter(s, p) + 1
                j == RunBefore(s, p) + 1
                aa == Relative(s, p)
                R1 == Effective(s, FirstAnchor(s, p))
                angle == Rat(aa.angle * j, n + 1)
            IN  /\ \A k \in 0..(n - 1) : Filled(s, After(s, FirstAnchor(s, p), k + 1))
                /\ Frame(s, p)[1] = Dot(vrrotvec2mat(aa.axis, angle[1], angle[2]), R1)
                /\ Len(Frame(s, p)[2]) = 3
                /\ IsBlend(Frame(s, p)[2], StoredFrame(s, FirstAnchor(s, p))[2],
                           StoredFrame(s, SecondAnchor(s, p))[2], n, j)

\* The second position of a filled run of two between anchors that differ
\* in rotation and in translation, the first not the main base of its pair.
C7_Witness ==
    \E s \in StrandNos : \E p \in Positions(s) :
        /\ Filled(s, p)
        /\ RunBefore(s, p) = 1 /\ RunAfter(s, p) = 0
        /\ Relative(s, p).angle # 0
        /\ StoredFrame(s, FirstAnchor(s, p))[2] # StoredFrame(s, SecondAnchor(s, p))[2]
        /\ ~At(before[s].is_main, FirstAnchor(s, p))

\* C8 as stated: no frame written by the interpolator equals the frame of
\* either base bounding its run.
C8_NoFrameEqualsBoundary ==
    \A s \in StrandNos : \A p \in Positions(s) :
        Filled(s, p) =>
            /\ Frame(s, p) # StoredFrame(s, FirstAnchor(s, p))
            /\ Frame(s, p) # StoredFrame(s, SecondAnchor(s, p))

\* C8, amended: no frame written equals the frame of either bounding base
\* when the two anchors differ in translation or the angle extracted from
\* R2 . transpose(R1) is not zero; when the translations are equal and the
\* angle is zero, every written frame is the first anchor's effective
\* rotation with the anchors' translation.
C8_NoFrameEqualsBoundaryUnlessSame ==
    \A s \in StrandNos : \A p \in Positions(s) :
        Filled(s, p) =>
            LET f1 == StoredFrame(s, FirstAnchor(s, p))
                f2 == StoredFrame(s, SecondAnchor(s, p))
            IN  IF f1[2] # f2[2] \/ Relative(s, p).angle # 0
                THEN Frame(s, p) # f1 /\ Frame(s, p) # f2
                ELSE Frame(s, p) = <<Effective(s, FirstAnchor(s, p)), f1[2]>>

\* A filled run between two anchors with the same translation whose
\* effective rotations differ, and one between anchors that differ in
\* translation only.
C8_Witness ==
    /\ \E s \in StrandNos : \E p \in Positions(s) :
        /\ Filled(s, p)
        /\ StoredFrame(s, FirstAnchor(s, p))[2] = StoredFrame(s, SecondAnchor(s, p))[2]
        /\ Relative(s, p).angle # 0
        /\ FirstAnchor(s, p) # SecondAnchor(s, p)

\* The atoms of the molecules made so far, in the order they were emitted.
RECURSIVE Emitted(_)
Emitted(ms) == IF ms = <<>> THEN <<>> ELSE Head(ms).atoms \o Emitted(Tail(ms))

EmittedIds == [k \in 1..Len(Emitted(molecular_structures)) |->
                  Emitted(molecular_structures)[k].id]

\* Base i (0-based) of strand s is skipped by the atom loop: it has no frame,
\* or its letter has no template.
SkippedUnset(s, i) == At(strands[s].rotations, i).size = 0
SkippedUnknown(s, i) ==
    At(strands[s].rotations, i).size # 0
        /\ Upper(At(strands[s].seq, i)) \notin BaseNames

\* C1: the ids of the emitted atoms, in emission order across all strands,
\* are strictly increasing (so no id is used twice).
C1_IdsStrictlyIncreasing ==
    \A i, j \in 1..Len(EmittedIds) : i < j => EmittedIds[i] < EmittedIds[j]

\* A finished run in which two strands emitted atoms and bases of both kinds
\* were skipped.
C1_Witness ==
    /\ pc = "done"
    /\ \E m1, m2 \in 1..Len(molecules) :
          m1 # m2 /\ Len(molecules[m1].atoms) > 0 /\ Len(molecules[m2].atoms) > 0
    /\ \E s \in StrandNos : \E i \in Positions(s) : SkippedUnset(s, i)
    /\ \E s \in StrandNos : \E i \in Positions(s) : SkippedUnknown(s, i)

\* C2: every emitted atom's id is one more than the id of the atom emitted
\* before it (the first is 1), across strand boundaries, strands without
\* atoms and skipped bases; the next id to give is the number of atoms
\* emitted plus one, so a skipped base takes no id.
C2_IdsWithoutGaps ==
    /\ \A k \in 1..Len(EmittedIds) : EmittedIds[k] = k
    /\ first_atomID = Len(EmittedIds) + 1

\* A finished run with a strand without atoms between two strands with
\* atoms, one of which also has a skipped base.
C2_Witness ==
    /\ pc = "done"
    /\ \E m1, m2, m3 \in 1..Len(molecules) :
          /\ m1 < m2 /\ m2 < m3
          /\ Len(molecules[m1].atoms) > 0
          /\ Len(molecules[m2].atoms) = 0
          /\ Len(molecules[m3].atoms) > 0
    /\ \E s \in StrandNos : \E i \in Positions(s) :
          Len(molecules[s].atoms) > 0 /\ (SkippedUnset(s, i) \/ SkippedUnknown(s, i))

\* The coordinates of the atoms of a list of molecules.
Coordinates(ms) ==
    [k \in 1..Len(ms) |-> [a \in 1..Len(ms[k].atoms) |-> ms[k].atoms[a].coords]]

\* C9: a second run of generate_structure on the same DNA structure (on the
\* same AtomicStructure or on a new one) returns the atom coordinates of the
\* first run.
C9_RunsAgree ==
    (pc = "done" /\ mode = "ds" /\ runs >= 2)
        => Coordinates(molecules) = Coordinates(first_result)

\* C10: when generate_structure or generate_structure_ss has returned, the
\* base reference frames, helix-axis coordinates and helix-axis frames of the
\* DnaStructure are the ones it was handed.
C10_InputUnchanged ==
    pc = "done" => StructureData = given

\* C11: the loop of _generate_atoms has made one Molecule for each strand it
\* has passed, in strand order and with the strand's id; what
\* generate_structure returns and stores holds one Molecule per strand (an
\* empty one for a strand without atoms); the residue numbers of the atoms of
\* a Molecule never decrease along its atom list.
C11_OneMoleculePerStrand ==
    /\ pc = "atoms" => Len(molecular_structures) = cur - 1
    /\ pc = "done" => molecules = molecular_structures /\ Len(molecules) = Len(strands)
    /\ pc \in {"atoms", "done"} =>
          \A s \in 1..Len(molecular_structures) :
              /\ molecular_structures[s].id = strands[s].id
              /\ molecular_structures[s].model_id = dna_strands[s].id
              /\ \A a, b \in 1..Len(molecular_structures[s].atoms) :
                    a < b => molecular_structures[s].atoms[a].res_seq_num
                                <= molecular_structures[s].atoms[b].res_seq_num

\* A returned list of three molecules: one without atoms, one with the atoms
\* of two bases.
C11_Witness ==
    /\ pc = "done"
    /\ Len(molecules) = 3
    /\ \E s \in 1..3 : Len(molecules[s].atoms) = 0
    /\ \E s \in 1..3 : \E a, b \in 1..Len(molecules[s].atoms) :
          molecules[s].atoms[a].res_seq_num < molecules[s].atoms[b].res_seq_num

\* The first call of generate_structure on the AtomicStructure has run its
\* loop over the pairing table; before holds the arrays that loop left.
FramesInitialized == mode = "ds" /\ runs = 1

\* The base at tour position p of strand s is in a row of the pairing table.
InPairingTable(s, p) ==
    \E i \in 1..Len(id_nt) : At(strands[s].tour, p) - 1 \in {id_nt[i][1], id_nt[i][2]}

\* C12: after the loop over the pairing table, before any interpolation, a
\* base has a rotation and a translation exactly if it is in a row of the
\* table, and none of the two otherwise; for a strand all of whose bases are
\* paired _find_single_strands returns no run.
C12_ResolvedIffPaired ==
    FramesInitialized =>
        \A s \in StrandNos :
            /\ \A p \in Positions(s) :
                  IF InPairingTable(s, p)
                  THEN /\ At(before[s].rotations, p).size = 9
                       /\ Len(At(before[s].translations, p)) = 3
                  ELSE /\ At(before[s].rotations, p).size = 0
                       /\ Len(At(before[s].translations, p)) = 0
            /\ (\A p \in Positions(s) : InPairingTable(s, p))
                  => FindSingleStrands(before[s].rotations, strands[s].is_circular) = <<>>

\* A circular strand of two bases, both paired, when the bulge loop starts.
C12_Witness ==
    /\ FramesInitialized /\ pc = "bulge" /\ cur = 1
    /\ \E s \in StrandNos :
          /\ strands[s].is_circular
          /\ Len(strands[s].tour) = 2
          /\ \A p \in Positions(s) : InPairingTable(s, p)

\* Strand (1-based) and tour position (0-based) of the base at place b of
\* base_connectivity.
StrandAt(b) == At(base_connectivity, b).strand + 1
PositionAt(b) == GetBaseIndex(strands[StrandAt(b)], At(base_connectivity, b))

\* C13: after the loop over the pairing table both bases of every row have the
\* same rotation and the same translation (those of the row: its reversed
\* helix-axis frame times rot_mat, its axis coordinates in Angstrom), the
\* first base of the row is marked is_main, its partner is not.
C13_PairSharesFrame ==
    FramesInitialized =>
        \A i \in 1..Len(id_nt) :
            LET s1 == StrandAt(id_nt[i][1])
                p1 == PositionAt(id_nt[i][1])
                s2 == StrandAt(id_nt[i][2])
                p2 == PositionAt(id_nt[i][2])
            IN  /\ At(before[s1].rotations, p1).size = 9
                /\ At(before[s1].rotations, p1) = At(before[s2].rotations, p2)
                /\ Len(At(before[s1].translations, p1)) = 3
                /\ At(before[s1].translations, p1) = At(before[s2].translations, p2)
                /\ At(before[s1].rotations, p1)
                      = Dot(Exact(ReverseDirections(given.helix_axis_frames[i])),
                            Exact(rot_mat))
                /\ At(before[s1].translations, p1)
                      = VecScale(given.helix_axis_coords[i], 10)
                /\ At(before[s1].is_main, p1)
                /\ ~At(before[s2].is_main, p2)

\* A pairing table of two rows with different frames, when the bulge loop
\* starts.
C13_Witness ==
    /\ FramesInitialized /\ pc = "bulge" /\ cur = 1
    /\ Len(id_nt) = 2
    /\ given.helix_axis_frames[1] # given.helix_axis_frames[2]

\* The atoms of the Molecule made for strand s that carry the residue number
\* of tour position i, in the order of the atom list.
ResidueAtoms(s, i) ==
    LET OfBase(a) == a.res_seq_num = i + 1
    IN  SelectSeq(molecular_structures[s].atoms, OfBase)

\* Tour position i of strand s has a frame / a letter with a template.
HasFrame(s, i) == At(strands[s].rotations, i).size # 0
HasTemplate(s, i) == Upper(At(strands[s].seq, i)) \in BaseNames

\* The template list as loaded that the base at position i of strand s is
\* made from.
TemplateOf(s, i) ==
    IF At(strands[s].is_main, i)
    THEN ForwardStruct[Upper(At(strands[s].seq, i))]
    ELSE ReverseStruct[Upper(At(strands[s].seq, i))]

\* The molecules of the running or finished call.
Assembled == IF pc \in {"atoms", "done"} THEN 1..Len(molecular_structures) ELSE {}

\* C14: no Molecule holds an atom with the residue number of a base whose
\* rotation is unset; a base with a frame and a letter that has a template
\* has all the atoms of its template list, by number and by name.
C14_UnsetBasesEmitNothing ==
    \A s \in Assembled : \A i \in Positions(s) :
        /\ ~HasFrame(s, i) => ResidueAtoms(s, i) = <<>>
        /\ (HasFrame(s, i) /\ HasTemplate(s, i)) =>
              /\ Len(ResidueAtoms(s, i)) = Len(TemplateOf(s, i))
              /\ \A k \in 1..Len(TemplateOf(s, i)) :
                    ResidueAtoms(s, i)[k].name = TemplateOf(s, i)[k].name

\* A finished strand with a base without a frame between two bases that got
\* their atoms.
C14_Witness ==
    /\ pc = "done"
    /\ \E s \in Assembled : \E i \in Positions(s) :
          /\ i - 1 \in Positions(s) /\ i + 1 \in Positions(s)
          /\ ~HasFrame(s, i) /\ HasTemplate(s, i)
          /\ Len(ResidueAtoms(s, i - 1)) > 0
          /\ Len(ResidueAtoms(s, i + 1)) > 0

\* C15: a base with a frame whose letter has no template gets no atoms and
\* ends nothing: the only exception of _generate_atoms is the one of reading
\* the templates, raised before the first Molecule is made, and every other
\* base with a frame and a template, in the same strand and in the strands
\* after it, has all the atoms of its template list.
C15_UnknownLetterSkipped ==
    /\ pc = "error" => err = "IOError" /\ molecular_structures = <<>>
    /\ \A s \in Assembled : \A i \in Positions(s) :
          (HasFrame(s, i) /\ ~HasTemplate(s, i)) =>
              /\ ResidueAtoms(s, i) = <<>>
              /\ \A t \in Assembled : \A k \in Positions(t) :
                    (/\ (t = s /\ k # i) \/ t > s
                     /\ HasFrame(t, k) /\ HasTemplate(t, k))
                    => Len(ResidueAtoms(t, k)) = Len(TemplateOf(t, k))

\* A finished call with a letter without a template at the head of a strand,
\* the next base of the strand and a base of a later strand with their atoms.
C15_Witness ==
    /\ pc = "done"
    /\ \E s, t \in Assembled :
          /\ s < t
          /\ 1 \in Positions(s)
          /\ HasFrame(s, 0) /\ ~HasTemplate(s, 0)
          /\ Len(ResidueAtoms(s, 1)) > 0
          /\ \E k \in Positions(t) : Len(ResidueAtoms(t, k)) > 0

\* C16: when reading a template fails, the call ends with the exception and
\* returns nothing, and self.molecules holds no Molecule of the failed call:
\* it is empty in the first call on the DNA structure, and empty or what the
\* first call returned in the second.
C16_TemplateFailureNoOutput ==
    (pc = "error" /\ err = "IOError") =>
        /\ runs = 1 => molecules = <<>>
        /\ runs = 2 => molecules \in {<<>>, first_result}

\* A first call ended by a template that cannot be read, after frames were
\* given to the bases of a pair.
C16_Witness ==
    /\ pc = "error" /\ err = "IOError" /\ runs = 1
    /\ \E s \in StrandNos : \E p \in Positions(s) : HasFrame(s, p)

\* C17: in a call the templates are read before any work on a base: once the
\* first call has given a base its frame, started the bulge loop or made
\* atoms, the templates have been read.
C17_TemplatesReadFirst ==
    (runs = 1 /\ pc \in {"bulge", "templates", "atoms", "done", "error"})
        => templates_read

\* What is to be read off the atoms of strand s from tour position i on: for
\* every base with a frame and a template, in tour order, one entry per atom
\* of its template list with the strand's chain id, the residue number i + 1
\* and the name, element and residue name of the template atom.
RECURSIVE Labels(_, _)
Labels(s, i) ==
    IF i \notin Positions(s) THEN <<>>
    ELSE (IF HasFrame(s, i) /\ HasTemplate(s, i)
          THEN [k \in 1..Len(TemplateOf(s, i)) |->
                   [chainID |-> strands[s].chainID, res_seq_num |-> i + 1,
                    name |-> TemplateOf(s, i)[k].name,
                    element |-> TemplateOf(s, i)[k].element,
                    res_name |-> TemplateOf(s, i)[k].res_name]]
          ELSE <<>>) \o Labels(s, i + 1)

\* C18: every atom of a Molecule carries the chain id of its strand, the
\* residue number (tour index of its base) + 1, and the name, element and
\* residue name of the template atom it was duplicated from.
C18_AtomLabels ==
    \A s \in Assembled :
        [k \in 1..Len(molecular_structures[s].atoms) |->
            [chainID |-> molecular_structures[s].atoms[k].chainID,
             res_seq_num |-> molecular_structures[s].atoms[k].res_seq_num,
             name |-> molecular_structures[s].atoms[k].name,
             element |-> molecular_structures[s].atoms[k].element,
             res_name |-> molecular_structures[s].atoms[k].res_name]]
        = Labels(s, 0)

\* A finished staple strand whose second base got atoms while its first got
\* none.
C18_Witness ==
    /\ pc = "done"
    /\ \E s \in Assembled :
          /\ ~strands[s].is_scaffold
          /\ 1 \in Positions(s)
          /\ ResidueAtoms(s, 0) = <<>>
          /\ Len(ResidueAtoms(s, 1)) > 1

\* C19: a base that gets atoms gets them from the forward list of its letter
\* when is_main is true and from the reverse list when it is false: as many
\* atoms as the list holds, each at the place of the list's atom turned by
\* rotation . Ry(180) and moved by the translation.
C19_TemplateByIsMain ==
    \A s \in Assembled : \A i \in Positions(s) :
        ResidueAtoms(s, i) # <<>> =>
            /\ Len(ResidueAtoms(s, i)) = Len(TemplateOf(s, i))
            /\ \A k \in 1..Len(TemplateOf(s, i)) :
                  ResidueAtoms(s, i)[k].coords
                      = Xform(Dot(At(strands[s].rotations, i), Ry(180)),
                              TemplateOf(s, i)[k].coords,
                              At(strands[s].translations, i))

\* A finished call with a main base and a base that is not main, both with
\* atoms, the two lists of each letter differing in their coordinates.
C19_Witness ==
    /\ pc = "done"
    /\ \E s, t \in Assembled : \E i \in Positions(s) : \E k \in Positions(t) :
          /\ At(strands[s].is_main, i) /\ ResidueAtoms(s, i) # <<>>
          /\ ~At(strands[t].is_main, k) /\ ResidueAtoms(t, k) # <<>>
    /\ \A b \in BaseNames : ForwardStruct[b][1].coords # ReverseStruct[b][1].coords

\* The atoms of the template lists the AtomicStructure holds.
TemplateAtoms ==
    UNION {{forward_struct[b][k] : k \in 1..Len(forward_struct[b])} \cup
           {reverse_struct[b][k] : k \in 1..Len(reverse_struct[b])} : b \in BaseNames}

\* C20: once loaded, the template lists stay as _read_template built them,
\* however many bases and strands got atoms: every template atom has its
\* loaded coordinates, id -1 and residue number -1.  Every atom of a Molecule
\* has been given a serial number of 1 or more, so none of them is a
\* template atom.
C20_TemplatesUntouched ==
    templates_read =>
        /\ forward_struct = ForwardStruct
        /\ reverse_struct = ReverseStruct
        /\ \A t \in TemplateAtoms : t.id = -1 /\ t.res_seq_num = -1
        /\ \A s \in 1..Len(molecular_structures) :
              \A k \in 1..Len(molecular_structures[s].atoms) :
                  /\ molecular_structures[s].atoms[k].id >= 1
                  /\ molecular_structures[s].atoms[k] \notin TemplateAtoms

\* A finished call in which one template list gave the atoms of two bases
\* of different strands.
C20_Witness ==
    /\ pc = "done" /\ templates_read
    /\ \E s, t \in Assembled : \E i \in Positions(s) : \E k \in Positions(t) :
          /\ s < t
          /\ ResidueAtoms(s, i) # <<>> /\ ResidueAtoms(t, k) # <<>>
          /\ At(strands[s].is_main, i) = At(strands[t].is_main, k)
          /\ Upper(At(strands[s].seq, i)) = Upper(At(strands[t].seq, k))

\* ------------------------------------------------------------------ utils.py on floats
(* A float within 1e-3 of a whole number: <<a, b, c>> is a + b*h + c*h^2    *)
(* with the step h = 0.000045; terms in h^3 (1e-13) are dropped.  With the  *)
(* coefficients below 100 the order of two floats is the lexicographic one. *)
(* An angle <<q, e>> is q quarter turns plus e*h radians.                   *)
FNum(n) == <<n, 0, 0>>
FAdd(u, v) == <<u[1] + v[1], u[2] + v[2], u[3] + v[3]>>
FNeg(u) == <<-u[1], -u[2], -u[3]>>
FSub(u, v) == FAdd(u, FNeg(v))
FMul(u, v) ==
    <<u[1] * v[1], u[1] * v[2] + u[2] * v[1],
      u[1] * v[3] + u[2] * v[2] + u[3] * v[1]>>
FLess(u, v) ==
    \/ u[1] < v[1]
    \/ u[1] = v[1] /\ u[2] < v[2]
    \/ u[1] = v[1] /\ u[2] = v[2] /\ u[3] < v[3]
FAbs(u) == IF FLess(u, FNum(0)) THEN FNeg(u) ELSE u

\* The floats a quotient or a root is looked for in.
FBox == {<<a, b, c>> : a \in -4..4, b \in -4..4, c \in -4..4}

\* u / v and sqrt(u), for operands whose quotient or root is such a float.
FDiv(u, v) == CHOOSE q \in FBox : FMul(q, v) = u
sqrt(u) == CHOOSE q \in FBox : FMul(q, q) = u /\ ~FLess(q, FNum(0))

\* u < 0.0001 and u < 0.01 (h = 0.000045, h^2 = 2.025e-9; both sides times 4e10).
Below1e4(u) == u[1] < 0 \/ (u[1] = 0 /\ 1800000 * u[2] + 81 * u[3] < 4000000)
Below1e2(u) == u[1] < 0 \/ (u[1] = 0 /\ 1800000 * u[2] + 81 * u[3] < 400000000)

\* math.cos and math.sin of e*h, then of an angle.
CosSmall(e) == <<1, 0, -((e * e) \div 2)>>
SinSmall(e) == <<0, e, 0>>
cos(angle) ==
    FSub(FMul(FNum(Cos4(angle[1])), CosSmall(angle[2])),
         FMul(FNum(Sin4(angle[1])), SinSmall(angle[2])))
sin(angle) ==
    FAdd(FMul(FNum(Sin4(angle[1])), CosSmall(angle[2])),
         FMul(FNum(Cos4(angle[1])), SinSmall(angle[2])))

\* The argument v of math.acos is outside [-1, 1]: "math domain error".
AcosRaises(v) == FLess(FNum(1), v) \/ FLess(v, FNum(-1))

\* math.acos(v) for v the cosine of an angle <<q, e>>, q in 0..2.
acos(v) ==
    CHOOSE angle \in {<<q, e>> : q \in 0..2, e \in {-4, -2, 0, 2, 4}} :
        /\ cos(angle) = v
        /\ angle[1] = 0 => angle[2] >= 0
        /\ angle[1] = 2 => angle[2] <= 0

\* abs(angle) < 0.0001 and abs(angle - pi) < 0.0001
NearZero(angle) == angle[1] = 0 /\ Below1e4(FAbs(<<0, angle[2], 0>>))
NearPi(angle) == angle[1] = 2 /\ Below1e4(FAbs(<<0, angle[2], 0>>))

\* utils._vrrotvec2mat(axis, theta) on floats.
vrrotvec2mat_f(axis, theta) ==
    LET s == sin(theta)
        c == cos(theta)
        t == FSub(FNum(1), c)
        norm == sqrt(FAdd(FAdd(FMul(axis[1], axis[1]), FMul(axis[2], axis[2])),
                          FMul(axis[3], axis[3])))
        x == FDiv(axis[1], norm)
        y == FDiv(axis[2], norm)
        z == FDiv(axis[3], norm)
        P(a, b) == FMul(a, b)
    IN  << FAdd(P(P(t, x), x), c), FSub(P(P(t, x), y), P(s, z)), FAdd(P(P(t, x), z), P(s, y)),
           FAdd(P(P(t, x), y), P(s, z)), FAdd(P(P(t, y), y), c), FSub(P(P(t, y), z), P(s, x)),
           FSub(P(P(t, x), z), P(s, y)), FAdd(P(P(t, y), z), P(s, x)), FAdd(P(P(t, z), z), c) >>

\* The argument of math.acos in _vrrotmat2vec.
AcosArg(R) == FDiv(FSub(FAdd(FAdd(R[1], R[5]), R[9]), FNum(1)), FNum(2))

\* utils._vrrotmat2vec(R) on floats: the axis and the angle it returns, or
\* the exception math.acos raises.  (The axes with 0.7071 the code takes
\* when the largest diagonal term is below epsilon are held by their
\* direction; no rotation matrix gets there.)
vrrotmat2vec_f(R) ==
    LET r00 == E(R, 0, 0)  r01 == E(R, 0, 1)  r02 == E(R, 0, 2)
        r10 == E(R, 1, 0)  r11 == E(R, 1, 1)  r12 == E(R, 1, 2)
        r20 == E(R, 2, 0)  r21 == E(R, 2, 1)  r22 == E(R, 2, 2)
        arg == AcosArg(R)
        angle == acos(arg)
        xx == FDiv(FAdd(r00, FNum(1)), FNum(2))
        yy == FDiv(FAdd(r11, FNum(1)), FNum(2))
        zz == FDiv(FAdd(r22, FNum(1)), FNum(2))
        xy == FDiv(FAdd(r01, r10), FNum(4))
        xz == FDiv(FAdd(r02, r20), FNum(4))
        yz == FDiv(FAdd(r12, r21), FNum(4))
        n == sqrt(FAdd(FAdd(FMul(FSub(r21, r12), FSub(r21, r12)),
                            FMul(FSub(r02, r20), FSub(r02, r20))),
                       FMul(FSub(r10, r01), FSub(r10, r01))))
        axis ==
            IF NearZero(angle) THEN <<FNum(1), FNum(0), FNum(0)>>
            ELSE IF NearPi(angle)
            THEN IF FLess(yy, xx) /\ FLess(zz, xx)
                 THEN IF Below1e2(xx) THEN <<FNum(0), FNum(1), FNum(1)>>
                      ELSE <<sqrt(xx), FDiv(xy, sqrt(xx)), FDiv(xz, sqrt(xx))>>
                 ELSE IF FLess(zz, yy)
                 THEN IF Below1e2(yy) THEN <<FNum(1), FNum(0), FNum(1)>>
                      ELSE <<FDiv(xy, sqrt(yy)), sqrt(yy), FDiv(yz, sqrt(yy))>>
                 ELSE IF Below1e2(zz) THEN <<FNum(1), FNum(1), FNum(0)>>
                      ELSE <<FDiv(xz, sqrt(zz)), FDiv(yz, sqrt(zz)), sqrt(zz)>>
            ELSE <<FDiv(FSub(r21, r12), n), FDiv(FSub(r02, r20), n),
                   FDiv(FSub(r10, r01), n)>>
    IN  IF AcosRaises(arg)
        THEN [err |-> "ValueError", axis |-> <<>>, angle |-> <<>>]
        ELSE [err |-> "none", axis |-> axis,
              angle |-> IF NearZero(angle) THEN <<0, 0>> ELSE angle]

\* The program variables.
program_vars ==
    <<base_connectivity, dna_strands, id_nt, helix_axis_coords, helix_axis_frames,
      strands, molecules, pc, mode, cur, molecular_structures, first_atomID,
      templates_read, forward_struct, reverse_struct, err,
      before, given, runs, first_result>>

\* _vrrotmat2vec(R) called on its own.
Vrrotmat2vec ==
    /\ call.fn = "vrrotmat2vec"
    /\ call.at = "called"
    /\ \E aa \in {vrrotmat2vec_f(call.R)} :
           call' = [call EXCEPT !.at = IF aa.err = "none" THEN "returned" ELSE "raised",
                                !.aa = aa]
    /\ UNCHANGED program_vars

\* _vrrotvec2mat(axis, angle) called with what _vrrotmat2vec returned.
Vrrotvec2mat ==
    /\ call.fn = "vrrotmat2vec"
    /\ call.at = "returned"
    /\ call' = [call EXCEPT !.at = "rebuilt",
                            !.M = vrrotvec2mat_f(call.aa.axis, call.aa.angle)]
    /\ UNCHANGED program_vars

\* The unit vectors along the coordinate axes, both directions.
UnitAxes ==
    {<<FNum(s), FNum(0), FNum(0)>> : s \in {-1, 1}}
    \cup {<<FNum(0), FNum(s), FNum(0)>> : s \in {-1, 1}}
    \cup {<<FNum(0), FNum(0), FNum(s)>> : s \in {-1, 1}}

\* Angles: 0, 0.00009, pi/2, pi - 0.00009 and pi.
Angles == {<<0, 0>>, <<0, 2>>, <<1, 0>>, <<2, -2>>, <<2, 0>>}

\* Rotation matrices: the rotations by these angles about these axes.
Rotations == {vrrotvec2mat_f(axis, theta) : axis \in UnitAxes, theta \in Angles}

\* A rotation matrix with one diagonal entry off by 4e-9, and the diagonal
\* matrices of whole numbers with an odd trace.
OffBy(R, k, d) == [R EXCEPT ![k] = FAdd(@, <<0, 0, d>>)]
Diagonals ==
    {<<FNum(d[1]), FNum(0), FNum(0),  FNum(0), FNum(d[2]), FNum(0),
       FNum(0), FNum(0), FNum(d[3])>> :
        d \in {x \in (-2..2) \X (-2..2) \X (-2..2) : (x[1] + x[2] + x[3]) % 2 = 1}}

\* The matrices among them whose (trace - 1) / 2 is outside [-1, 1].
OutOfRange ==
    {M \in {OffBy(R, k, d) : R \in Rotations, k \in {1, 5, 9}, d \in {-2, 2}}
            \cup Diagonals : AcosRaises(AcosArg(M))}

InitRot ==
    /\ Constructed(<<>>, <<>>, <<>>)
    /\ \E R \in Rotations \cup OutOfRange :
           call = [fn |-> "vrrotmat2vec", at |-> "called", R |-> R,
                   aa |-> [err |-> "none", axis |-> <<>>, angle |-> <<>>], M |-> <<>>]

NextRot ==
    \/ Vrrotmat2vec
    \/ Vrrotvec2mat

SpecRot == InitRot /\ [][NextRot]_vars

\* ------------------------------------------------------------------ Molecule on its own
\* Atoms to add: names that differ only in blanks, two residue numbers, two
\* chains.
MolAtoms ==
    {Atom(-1, name, "A", chainID, res_seq_num, Point(ZeroVec), "P") :
        name \in {<<" ", "P", " ">>, <<"P">>, <<"N", "9", " ">>},
        chainID \in {"A", "B"}, res_seq_num \in {1, 2}}

\* Molecule.add_atom(atom) called on a Molecule.
AddAtomCall ==
    /\ call.fn = "add_atom"
    /\ Len(call.added) < MaxAdded
    /\ \E atom \in MolAtoms :
           call' = [call EXCEPT !.molecule = AddAtom(@, atom),
                                !.added = Append(@, atom)]
    /\ UNCHANGED program_vars

InitMol ==
    /\ Constructed(<<>>, <<>>, <<>>)
    /\ call = [fn |-> "add_atom", molecule |-> Molecule(0), added |-> <<>>]

SpecMol == InitMol /\ [][AddAtomCall]_vars

\* ------------------------------------------------------------------ _find_single_strands on its own
\* The number of positions not visited.
Unvisited(is_visited) == Cardinality({k \in 1..Len(is_visited) : ~is_visited[k]})

\* The locals of the call, and for the scan at hand the number of passes of
\* its loop body (steps, counted up to one more than the tour length) and
\* the number of positions that were not visited when the pass of the outer
\* loop started (unvisited).
FindCall(rotations, is_circular) ==
    [fn |-> "find_single_strands", at |-> "while",
     rotations |-> rotations, is_circular |-> is_circular,
     num_nt |-> Len(rotations),
     is_visited |-> [k \in 1..Len(rotations) |-> rotations[k].size # 0],
     loop |-> 0, single_strands |-> <<>>, i_0 |-> 0, i |-> 0,
     steps |-> 0, unvisited |-> 0]

CountStep(c) == IF c.steps > c.num_nt THEN c.steps ELSE c.steps + 1

\* while (True): the test of is_visited, and the start of a pass.
WhileTrue ==
    /\ call.fn = "find_single_strands"
    /\ call.at = "while"
    /\ call' = IF \E k \in 1..call.num_nt : ~call.is_visited[k]
               THEN [call EXCEPT !.at = "scan5",
                                 !.i_0 = IndexOfFalse(call.is_visited),
                                 !.i = IndexOfFalse(call.is_visited),
                                 !.single_strands = Append(@, <<>>),
                                 !.steps = 0,
                                 !.unvisited = Unvisited(call.is_visited)]
               ELSE [call EXCEPT !.at = "returned"]
    /\ UNCHANGED program_vars

\* One test of the loop of the scan in the 5' direction, with the pass of
\* its body when the test holds.
Scan5Step ==
    /\ call.fn = "find_single_strands"
    /\ call.at = "scan5"
    /\ call' = IF At(call.is_visited, call.i)
               THEN [call EXCEPT !.at = "drop"]
               ELSE [call EXCEPT
                        !.is_visited = Put(@, call.i, TRUE),
                        !.single_strands[call.loop + 1] = Append(@, call.i),
                        !.steps = CountStep(call),
                        !.i = IF call.i > 0 THEN call.i - 1
                              ELSE IF call.is_circular THEN call.num_nt - 1
                              ELSE call.i,
                        !.at = IF call.i > 0 \/ call.is_circular THEN "scan5"
                               ELSE "drop"]
    /\ UNCHANGED program_vars

\* Between the scans: the list of the pass is emptied, i_0 is not visited
\* again and the scan in the 3' direction starts from it.
DropList ==
    /\ call.fn = "find_single_strands"
    /\ call.at = "drop"
    /\ call' = [call EXCEPT !.single_strands[Len(call.single_strands)] = <<>>,
                            !.is_visited = Put(@, call.i_0, FALSE),
                            !.i = call.i_0,
                            !.steps = 0,
                            !.at = "scan3"]
    /\ UNCHANGED program_vars

\* Scan3Step without the assignment to is_visited.
Scan3StepNoMark ==
    /\ call.fn = "find_single_strands"
    /\ call.at = "scan3"
    /\ call' = IF At(call.is_visited, call.i)
               THEN [call EXCEPT !.at = "next"]
               ELSE [call EXCEPT
                        !.single_strands[call.loop + 1] = Append(@, call.i),
                        !.steps = CountStep(call),
                        !.i = IF call.i < call.num_nt - 1 THEN call.i + 1
                              ELSE IF call.is_circular THEN 0
                              ELSE call.i,
                        !.at = IF call.i < call.num_nt - 1 \/ call.is_circular
                               THEN "scan3" ELSE "next"]
    /\ UNCHANGED program_vars

\* One test of the loop of the scan in the 3' direction, with the pass of
\* its body when the test holds.
Scan3Step ==
    /\ call.fn = "find_single_strands"
    /\ call.at = "scan3"
    /\ call' = IF At(call.is_visited, call.i)
               THEN [call EXCEPT !.at = "next"]
               ELSE [call EXCEPT
                        !.is_visited = Put(@, call.i, TRUE),
                        !.single_strands[call.loop + 1] = Append(@, call.i),
                        !.steps = CountStep(call),
                        !.i = IF call.i < call.num_nt - 1 THEN call.i + 1
                              ELSE IF call.is_circular THEN 0
                              ELSE call.i,
                        !.at = IF call.i < call.num_nt - 1 \/ call.is_circular
                               THEN "scan3" ELSE "next"]
    /\ UNCHANGED program_vars

\* loop = loop + 1, the end of a pass of the outer loop.
LoopPlusOne ==
    /\ call.fn = "find_single_strands"
    /\ call.at = "next"
    /\ call' = [call EXCEPT !.loop = @ + 1, !.at = "while"]
    /\ UNCHANGED program_vars

\* Rotation arrays of up to MaxNt positions, each unset or a frame.
InitFind ==
    /\ Constructed(<<>>, <<>>, <<>>)
    /\ \E n \in 0..MaxNt : \E is_set \in [1..n -> BOOLEAN] : \E is_circular \in BOOLEAN :
           call = FindCall([k \in 1..n |-> IF is_set[k] THEN BulgeFrames[1].R ELSE EmptyMat],
                           is_circular)

NextFind ==
    \/ WhileTrue
    \/ Scan5Step
    \/ DropList
    \/ Scan3Step
    \/ LoopPlusOne

SpecFind == InitFind /\ [][NextFind]_vars

\* The call runs on: each of its steps is taken in the end.
SpecFindLive == SpecFind /\ WF_vars(NextFind)

\* ------------------------------------------------------------------ C21..C30
\* C21: _vrrotmat2vec never fails on a matrix whose (trace - 1) / 2 lies
\* outside [-1, 1]; the value is clamped and an (axis, angle) pair returned.
C21_ClampedBeforeAcos ==
    call.fn = "vrrotmat2vec" /\ call.at # "called" /\ AcosRaises(AcosArg(call.R))
        => call.at = "returned" \/ call.at = "rebuilt"

\* d <= 0.0001 for a float d >= 0.
Within1e4(d) == d[1] = 0 /\ 1800000 * d[2] + 81 * d[3] <= 4000000

\* C22: for every rotation matrix R, _vrrotvec2mat of the axis and angle
\* _vrrotmat2vec(R) returns is R within 1e-4 in every entry.
C22_RoundTrip ==
    call.fn = "vrrotmat2vec" /\ call.R \in Rotations
        => /\ call.at # "raised"
           /\ call.at = "rebuilt"
                 => \A k \in 1..9 : Within1e4(FAbs(FSub(call.R[k], call.M[k])))

\* The last of the added atoms with the residue number and the stripped
\* name of the i-th one.
LastLike(added, i) ==
    CHOOSE j \in 1..Len(added) :
        /\ added[j].res_seq_num = added[i].res_seq_num
        /\ Strip(added[j].name) = Strip(added[i].name)
        /\ \A k \in (j + 1)..Len(added) :
               ~(/\ added[k].res_seq_num = added[i].res_seq_num
                 /\ Strip(added[k].name) = Strip(added[i].name))

\* C23: after any sequence of add_atom calls atoms is the list of the added
\* atoms in call order, chains is the set of their chain ids, and
\* residues[res_seq_num][stripped name] of every added atom is the atom
\* added last with that residue number and stripped name.
C23_MoleculeBookkeeping ==
    call.fn = "add_atom" =>
        LET molecule == call.molecule
            added == call.added
        IN  /\ molecule.atoms = added
            /\ molecule.chains = {added[i].chainID : i \in 1..Len(added)}
            /\ \A i \in 1..Len(added) :
                   /\ added[i].res_seq_num \in DOMAIN molecule.residues
                   /\ Strip(added[i].name) \in DOMAIN molecule.residues[added[i].res_seq_num]
                   /\ molecule.residues[added[i].res_seq_num][Strip(added[i].name)]
                          = LastLike(added, i)

\* Three atoms are added, two of them with one residue number and names
\* that differ only in blanks.
C23_Witness ==
    /\ call.fn = "add_atom"
    /\ Len(call.added) = MaxAdded
    /\ \E i \in 1..Len(call.added) : \E j \in (i + 1)..Len(call.added) :
           /\ call.added[i].res_seq_num = call.added[j].res_seq_num
           /\ call.added[i].name # call.added[j].name
           /\ Strip(call.added[i].name) = Strip(call.added[j].name)
           /\ call.molecule.residues[call.added[i].res_seq_num][Strip(call.added[i].name)] = j

\* ------------------------------------------------------------------ C24
\* What _find_single_strands was given and what it returned.
Returned == call.fn = "find_single_strands" /\ call.at = "returned"

UnsetAt(p) == call.rotations[p + 1].size = 0

\* The places (run, index) of the returned runs that hold position p.
PlacesOf(p) ==
    {rk \in UNION {{<<r, k>> : k \in 1..Len(call.single_strands[r])} :
                        r \in 1..Len(call.single_strands)} :
        call.single_strands[rk[1]][rk[2]] = p}

\* Position q follows position p in the tour (around the end only on a
\* circular strand).
Follows(p, q) ==
    \/ q = p + 1
    \/ call.is_circular /\ p = call.num_nt - 1 /\ q = 0

\* The run is a block of consecutive positions in tour order that cannot be
\* made longer at either end.
MaximalRun(run) ==
    /\ run # <<>>
    /\ \A k \in 1..(Len(run) - 1) : Follows(run[k], run[k + 1])
    /\ \/ Len(run) = call.num_nt
       \/ /\ \A p \in 0..(call.num_nt - 1) : Follows(p, run[1]) => ~UnsetAt(p)
          /\ \A q \in 0..(call.num_nt - 1) : Follows(run[Len(run)], q) => ~UnsetAt(q)

\* C24: _find_single_strands partitions the unset positions into maximal
\* runs: every unset position is in exactly one returned run, no resolved
\* position is in any run, and each run is a maximal block of consecutive
\* unset positions in tour order (around the end only when is_circular).
C24_PartitionIntoMaximalRuns ==
    Returned =>
        /\ \A p \in 0..(call.num_nt - 1) :
               Cardinality(PlacesOf(p)) = IF UnsetAt(p) THEN 1 ELSE 0
        /\ \A r \in 1..Len(call.single_strands) : MaximalRun(call.single_strands[r])

\* The same on the strands that are not circular.
C24_LinearPartition ==
    (Returned /\ ~call.is_circular) => C24_PartitionIntoMaximalRuns

\* ------------------------------------------------------------------ C25
\* The rotation of an anchor with the half turn about Z multiplied from the
\* left: np.dot(vrot, R).
PreMultiplied(s, i) ==
    IF At(before[s].is_main, i) THEN At(before[s].rotations, i)
    ELSE Dot(HalfTurnZ, At(before[s].rotations, i))

\* The rotation written at position p is the one _fit_R_d makes from the
\* anchor rotations R1 and R2.
FittedFrom(s, p, R1, R2) ==
    LET n == RunBefore(s, p) + RunAfter(s, p) + 1
        j == RunBefore(s, p) + 1
        aa == vrrotmat2vec(Dot(R2, TransposeOf(R1)))
        angle == Rat(aa.angle * j, n + 1)
    IN  /\ aa.err = "none"
        /\ Frame(s, p)[1] = Dot(vrrotvec2mat(aa.axis, angle[1], angle[2]), R1)

\* C25 as stated: the rotation of an anchor that is not the main base of
\* its pair is pre-multiplied by the half turn about Z (Rz . R), the
\* rotation of a main anchor is taken as stored.
C25_AnchorPreMultiplied ==
    \A s \in StrandNos : \A p \in Positions(s) :
        Filled(s, p) =>
            FittedFrom(s, p, PreMultiplied(s, FirstAnchor(s, p)),
                             PreMultiplied(s, SecondAnchor(s, p)))

\* C25, amended: each anchor on its own, the rotation used for an anchor
\* that is not the main base of its pair is the stored rotation times the
\* half turn about Z, np.dot(R, Rz), the turn about the Z axis of the base's
\* own frame; the rotation of a main anchor is used as stored.  The stored
\* rotation of the anchor stays as it was.
C25_AnchorTimesHalfTurn ==
    \A s \in StrandNos : \A p \in Positions(s) :
        Filled(s, p) =>
            /\ FittedFrom(s, p, Effective(s, FirstAnchor(s, p)),
                                Effective(s, SecondAnchor(s, p)))
            /\ Frame(s, FirstAnchor(s, p)) = StoredFrame(s, FirstAnchor(s, p))
            /\ Frame(s, SecondAnchor(s, p)) = StoredFrame(s, SecondAnchor(s, p))

\* A filled run whose first anchor is not the main base of its pair and
\* whose second anchor is, where the side of the half turn matters; and one
\* with the main base first.
C25_Witness ==
    /\ \E s \in StrandNos : \E p \in Positions(s) :
          /\ Filled(s, p)
          /\ ~At(before[s].is_main, FirstAnchor(s, p))
          /\ At(before[s].is_main, SecondAnchor(s, p))
          /\ Effective(s, FirstAnchor(s, p)) # PreMultiplied(s, FirstAnchor(s, p))

\* ------------------------------------------------------------------ C26
\* C26: every position the interpolator filled has is_main true, and the
\* atoms made for it are those of the forward list of its letter, placed by
\* its frame; the positions of the free-end runs of a linear strand, which
\* are not interpolated, keep is_main false.
C26_FilledIsMain ==
    \A s \in StrandNos : \A p \in Positions(s) :
        /\ Filled(s, p) => At(strands[s].is_main, p)
        /\ (Filled(s, p) /\ s \in Assembled /\ HasTemplate(s, p)) =>
              LET forward == ForwardStruct[Upper(At(strands[s].seq, p))]
              IN  /\ Len(ResidueAtoms(s, p)) = Len(forward)
                  /\ \A k \in 1..Len(forward) :
                        ResidueAtoms(s, p)[k].coords
                            = Xform(Dot(At(strands[s].rotations, p), Ry(180)),
                                    forward[k].coords,
                                    At(strands[s].translations, p))
        /\ (~strands[s].is_circular /\ Interpolated(s)
                /\ WasUnset(s, p) /\ InFreeEndRun(s, p)) =>
              ~At(strands[s].is_main, p)

\* A finished call on a linear strand with a filled position that got the
\* atoms of a forward list which differs from the reverse list, and with a
\* position of a free-end run.
C26_Witness ==
    /\ pc = "done"
    /\ \E s \in StrandNos : \E p, q \in Positions(s) :
          /\ ~strands[s].is_circular
          /\ Filled(s, p) /\ s \in Assembled /\ ResidueAtoms(s, p) # <<>>
          /\ ForwardStruct[Upper(At(strands[s].seq, p))][1].coords
                # ReverseStruct[Upper(At(strands[s].seq, p))][1].coords
          /\ WasUnset(s, q) /\ InFreeEndRun(s, q) /\ ~At(strands[s].is_main, q)

\* ------------------------------------------------------------------ C27
\* C27: the interpolator writes only to positions that were unset when it
\* was called: a position that had a frame keeps its rotation, its
\* translation and its is_main from the start of the bulge loop to the end
\* of the call (the half turn of an anchor is not stored), so a position
\* the interpolator filled had no frame before.
C27_ResolvedKept ==
    \A s \in StrandNos : \A p \in Positions(s) :
        (pc # "idle" /\ ~WasUnset(s, p)) =>
            /\ Frame(s, p) = StoredFrame(s, p)
            /\ At(strands[s].is_main, p) = At(before[s].is_main, p)

\* A strand after the interpolator with a filled run whose first anchor is
\* not the main base of its pair, so that its rotation was turned for the
\* fit, and still holds what it held.
C27_Witness ==
    \E s \in StrandNos : \E p \in Positions(s) :
        /\ Interpolated(s)
        /\ Filled(s, p)
        /\ ~At(before[s].is_main, FirstAnchor(s, p))
        /\ Effective(s, FirstAnchor(s, p)) # At(before[s].rotations, FirstAnchor(s, p))
        /\ Frame(s, FirstAnchor(s, p)) = StoredFrame(s, FirstAnchor(s, p))
        /\ ~At(strands[s].is_main, FirstAnchor(s, p))

\* ------------------------------------------------------------------ C28
\* The runs _generate_bulge_dof goes through on strand s, and the arrays as
\* they are when it comes to the r-th of them.
RunsOf(s) ==
    RemoveFreeEnds(FindSingleStrands(before[s].rotations, strands[s].is_circular),
                   Len(before[s].rotations), strands[s].is_circular)

ArraysAt(s, r) ==
    InterpolateRuns([rotations |-> before[s].rotations,
                     translations |-> before[s].translations,
                     is_main |-> before[s].is_main, err |-> "none"],
                    SubSeq(RunsOf(s), 1, r - 1), 1)

\* Position i holds a 3x3 rotation and a translation of three numbers.
HoldsFrame(a, i) == At(a.rotations, i).size = 9 /\ Len(At(a.translations, i)) = 3

\* C28: whenever _generate_bulge_dof comes to interpolate a run, the
\* position before the first element of the run and the position after its
\* last element (around the ends of the strand) both hold a rotation and a
\* translation at that moment.
C28_AnchorsResolved ==
    \A s \in StrandNos :
        (Interpolated(s) \/ Raised(s)) =>
            \A r \in 1..Len(RunsOf(s)) :
                (RunsOf(s)[r] # <<>> /\ ArraysAt(s, r).err = "none") =>
                    /\ HoldsFrame(ArraysAt(s, r),
                                  IndexBefore(RunsOf(s)[r], Len(before[s].rotations)))
                    /\ HoldsFrame(ArraysAt(s, r),
                                  IndexAfter(RunsOf(s)[r], Len(before[s].rotations)))

\* The same on the strands that are not circular.
C28_LinearAnchorsResolved ==
    \A s \in StrandNos :
        ((Interpolated(s) \/ Raised(s)) /\ ~strands[s].is_circular) =>
            \A r \in 1..Len(RunsOf(s)) :
                (RunsOf(s)[r] # <<>> /\ ArraysAt(s, r).err = "none") =>
                    /\ HoldsFrame(ArraysAt(s, r),
                                  IndexBefore(RunsOf(s)[r], Len(before[s].rotations)))
                    /\ HoldsFrame(ArraysAt(s, r),
                                  IndexAfter(RunsOf(s)[r], Len(before[s].rotations)))

\* ------------------------------------------------------------------ C29
\* At the end of a pass of the outer loop fewer positions are unvisited than
\* at its start.
PassReducesUnvisited ==
    (call.fn = "find_single_strands" /\ call.at = "next") =>
        Unvisited(call.is_visited) < call.unvisited

\* The body of a scan loop runs at most once per position of the strand.
ScanWithinOneLap ==
    call.fn = "find_single_strands" => call.steps <= call.num_nt

\* C29: _find_single_strands returns for every rotations array and both
\* values of is_circular (the empty array, the linear and the circular
\* strand with no frame at all among them): each pass of the outer loop
\* leaves fewer positions unvisited than it found, and each scan stops
\* within one lap of the strand.
C29_FindTerminates ==
    /\ [](PassReducesUnvisited /\ ScanWithinOneLap)
    /\ <>Returned

\* The call has returned for a circular strand of several positions without
\* any frame, after one pass whose 5' scan went once around the strand.
C29_Witness ==
    /\ Returned
    /\ call.is_circular
    /\ call.num_nt > 1
    /\ \A p \in 0..(call.num_nt - 1) : UnsetAt(p)
    /\ call.loop = 1

\* ------------------------------------------------------------------ C30
\* C30: after the construction of an AtomicStructureStrand, after the frame
\* initializer and after the interpolator, the arrays rotations,
\* translations, is_main and seq of a strand are as long as its tour, and at
\* every position the rotation is unset exactly when the translation is.
C30_ArraysConsistent ==
    \A s \in StrandNos :
        /\ Len(strands[s].rotations) = Len(strands[s].tour)
        /\ Len(strands[s].translations) = Len(strands[s].tour)
        /\ Len(strands[s].is_main) = Len(strands[s].tour)
        /\ Len(strands[s].seq) = Len(strands[s].tour)
        /\ \A p \in Positions(s) :
              /\ At(strands[s].rotations, p).size \in {0, 9}
              /\ Len(At(strands[s].translations, p)) \in {0, 3}
              /\ (At(strands[s].rotations, p).size = 0)
                    <=> (Len(At(strands[s].translations, p)) = 0)

\* After the bulge loop: a strand with a position the frame initializer
\* resolved and a position the interpolator filled.
C30_Witness ==
    /\ pc \in {"templates", "atoms", "done"}
    /\ \E s \in StrandNos : \E p, q \in Positions(s) :
          /\ Filled(s, p) /\ Resolved(s, p)
          /\ ~WasUnset(s, q) /\ Resolved(s, q)

====
